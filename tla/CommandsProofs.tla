--------------------------- MODULE CommandsProofs ---------------------------
(***************************************************************************)
(* What Commands promises, for any files, command lines, processes and     *)
(* number of commands.                                                     *)
(***************************************************************************)
EXTENDS Commands, TLAPS

Phases == {"begin", "open_input", "signing", "open_output", "writing",
           "done", "refused"}

Busy == [phase : Phases, inv : Invocations, seen : Files, blob : Blobs \cup {NoBlob},
         before : Files, disturbed : BOOLEAN]

Embeds == {"sign", "add", "attach"}

\* What a command holds by the time it writes, and still when it is done: an
\* image, and a blob with the body and the stamps its name asks for.
Ready(j) ==
    /\ IsImage(j.seen)
    /\ j.inv.cmd \in CommandNames \ {"remote"}
    /\ j.inv.cmd # "remove" => j.blob \in Blobs
    /\ j.inv.cmd \in Embeds => j.blob.form = "native"
    /\ j.inv.cmd = "sign" => j.blob.signed /\ j.blob.covers = j.seen.body
    /\ j.inv.cmd = "add" =>
          /\ j.seen.table \in Blobs
          /\ j.blob.signed /\ j.blob.covers = j.seen.table.covers
          /\ j.blob.stamps = j.seen.table.stamps + j.inv.lists

Shape(j) ==
    /\ j.phase = "open_input" =>
          j.inv.cmd = "attach" /\ j.blob \in Blobs /\ j.blob.form = "native"
    /\ j.phase = "signing" =>
          /\ j.inv.cmd \in {"sign", "add"} /\ IsImage(j.seen) /\ j.blob \in Blobs
          /\ j.inv.cmd = "sign" => j.blob.covers = j.seen.body /\ j.blob.stamps = 0
          /\ j.inv.cmd = "add" => j.blob = j.seen.table
    /\ j.phase \in {"open_output", "writing"} => Ready(j)
    /\ j.phase = "done" /\ j.inv.cmd # "remote" => Ready(j)
    /\ Accounted(j.seen)

Table(j) == IF j.inv.cmd = "remove" THEN NoBlob ELSE j.blob

\* How a command that nobody disturbed relates to the files: its output is as it
\* was until it writes, and empty while there is nothing to remove; its input is
\* as it was seen; its result is what it made.
Linked(j, d) ==
    ~j.disturbed =>
        /\ j.phase \in {"begin", "open_input", "signing", "open_output"} =>
              d[j.inv.out] = j.before
        /\ j.phase = "refused" =>
              d[j.inv.out] = j.before \/ (j.inv.cmd = "remove" /\ d[j.inv.out] = Nothing)
        /\ j.phase = "writing" /\ j.inv.cmd = "remove" /\ j.seen.table = NoBlob =>
              d[j.inv.out] = Nothing
        /\ j.inv.in # j.inv.out /\ j.phase \in {"signing", "open_output", "writing"} =>
              d[j.inv.in] = j.seen
        /\ j.inv.in # j.inv.out /\ j.phase = "done" /\ j.inv.cmd \in Embeds \cup {"remove"} =>
              d[j.inv.out] = Pe(j.seen.body, Table(j))

JobOK(j, d) == j = Idle \/ (j \in Busy /\ Shape(j) /\ Linked(j, d))

IInv ==
    /\ disk \in [Paths -> Files]
    /\ started \in 0 .. MaxCommands
    /\ DOMAIN jobs = Workers
    /\ \A w \in Workers : JobOK(jobs[w], disk)
    /\ EmbeddedIsNative

----------------------------------------------------------------------------
(* Files and blobs *)

LEMMA FileKinds ==
    ASSUME NEW f \in Files
    PROVE  /\ f.kind = "pe" => f.body \in Bodies /\ f.table \in Blobs \cup {NoBlob}
           /\ f.kind = "pkcs7" => f.blob \in Blobs
<1>1. CASE f \in {Nothing, Garbage}
  BY <1>1 DEF Nothing, Garbage
<1>2. CASE f \in [kind : {"pkcs7"}, blob : Blobs]
  BY <1>2
<1>3. CASE f \in [kind : {"pe"}, body : Bodies, table : Blobs \cup {NoBlob}]
  BY <1>3
<1> QED BY <1>1, <1>2, <1>3 DEF Files

LEMMA PeFile ==
    ASSUME NEW body \in Bodies, NEW table \in Blobs \cup {NoBlob}
    PROVE  /\ Pe(body, table) \in Files
           /\ Pe(body, table).kind = "pe"
           /\ Pe(body, table).body = body /\ Pe(body, table).table = table
BY DEF Pe, Files

LEMMA Pkcs7File ==
    ASSUME NEW blob \in Blobs
    PROVE  Pkcs7(blob) \in Files /\ Pkcs7(blob).kind = "pkcs7"
BY DEF Pkcs7, Files

LEMMA OtherFiles == /\ Nothing \in Files /\ Garbage \in Files
                    /\ Nothing.kind = "nothing" /\ Garbage.kind = "garbage"
BY DEF Nothing, Garbage, Files

LEMMA NoBlobIsNone == NoBlob \notin Blobs
<1> SUFFICES ASSUME NoBlob \in Blobs PROVE FALSE
  OBVIOUS
<1>1. DOMAIN NoBlob = {"covers", "signed", "form", "stamps"}
  BY DEF Blobs
<1>2. DOMAIN NoBlob = {"none"}
  BY DEF NoBlob
<1> QED BY <1>1, <1>2

LEMMA NormalizedBlob ==
    ASSUME NEW b \in Blobs
    PROVE  /\ Normalized(b) \in Blobs /\ Normalized(b).form = "native"
           /\ Normalized(b).covers = b.covers /\ Normalized(b).signed = b.signed
           /\ Normalized(b).stamps = b.stamps
BY DEF Normalized, Blobs, Forms

\* The files whose table needs no excuse: none, a native one, a body in pieces.
LEMMA AccountedFiles ==
    /\ Accounted(Nothing) /\ Accounted(Garbage)
    /\ \A blob \in Blobs : Accounted(Pkcs7(blob))
    /\ \A body \in Bodies : Accounted(Pe(body, NoBlob))
    /\ \A body \in Bodies, blob \in Blobs :
           blob.form = "native" \/ (body = Torn /\ blob \in Inherited) => Accounted(Pe(body, blob))
<1>1. ~IsSigned(Nothing) /\ ~IsSigned(Garbage)
  BY OtherFiles DEF IsSigned, IsImage
<1>2. \A blob \in Blobs : ~IsSigned(Pkcs7(blob))
  BY Pkcs7File DEF IsSigned, IsImage
<1>3. \A body \in Bodies : ~IsSigned(Pe(body, NoBlob))
  BY PeFile DEF IsSigned
<1>4. \A body \in Bodies, blob \in Blobs :
          Pe(body, blob).body = body /\ Pe(body, blob).table = blob
  BY PeFile
<1> QED BY <1>1, <1>2, <1>3, <1>4 DEF Accounted

\* Pieces may show what an accounted file shows.
LEMMA TornIsAccounted ==
    ASSUME NEW file \in Files, IsImage(file), Accounted(file)
    PROVE  Pe(Torn, file.table) \in Files /\ Accounted(Pe(Torn, file.table))
<1>1. file.table \in Blobs \cup {NoBlob} /\ Torn \in Bodies
  BY FileKinds DEF IsImage, Bodies
<1>2. CASE file.table = NoBlob
  BY <1>1, <1>2, PeFile, AccountedFiles
<1>3. CASE file.table # NoBlob
  <2>1. file.table.form = "native" \/ file.table \in Inherited
    BY <1>3 DEF Accounted, IsSigned, Inherited
  <2> QED BY <1>1, <1>3, <2>1, PeFile, AccountedFiles
<1> QED BY <1>2, <1>3

LEMMA MadeBlob ==
    ASSUME NEW b \in Blobs, NEW n \in Nat
    PROVE  /\ Made(b, n) \in Blobs /\ Made(b, n).form = "native" /\ Made(b, n).signed
           /\ Made(b, n).covers = b.covers /\ Made(b, n).stamps = b.stamps + n
<1> DEFINE c == Normalized(b)
<1>1. c \in Blobs /\ c.form = "native" /\ c.covers = b.covers /\ b.stamps + n \in Nat
  BY NormalizedBlob DEF Blobs
<1>2. Made(b, n) = [c EXCEPT !.signed = TRUE, !.stamps = b.stamps + n]
  BY DEF Made
<1> HIDE DEF c
<1> QED BY <1>1, <1>2 DEF Blobs

----------------------------------------------------------------------------
(* The two kinds of step *)

\* A command that keeps the files alone disturbs nobody.
LEMMA LocalStep ==
    ASSUME IInv, NEW w \in Workers, NEW j, jobs' = [jobs EXCEPT ![w] = j],
           JobOK(j, disk), UNCHANGED disk, started' \in 0 .. MaxCommands
    PROVE  IInv'
<1>1. DOMAIN jobs' = Workers /\ disk' \in [Paths -> Files]
  BY DEF IInv
<1>2. ASSUME NEW v \in Workers PROVE JobOK(jobs[v], disk)'
  BY DEF IInv
<1>3. EmbeddedIsNative'
  BY DEF IInv, EmbeddedIsNative
<1> QED BY <1>1, <1>2, <1>3 DEF IInv

\* A job that was told, or that has nothing to do with the file written, is well.
LEMMA Bystander ==
    ASSUME NEW d \in [Paths -> Files], NEW p \in Paths, NEW f \in Files, NEW j \in Busy,
           Shape(j), Linked(j, d)
    PROVE  LET k == [j EXCEPT !.disturbed = TRUE]
               e == [d EXCEPT ![p] = f]
           IN  /\ k \in Busy /\ Shape(k) /\ Linked(k, e)
               /\ p \notin {j.inv.in, j.inv.out} => Linked(j, e)
<1> DEFINE k == [j EXCEPT !.disturbed = TRUE]
           e == [d EXCEPT ![p] = f]
<1>1. /\ k \in Busy /\ k.disturbed /\ k.phase = j.phase /\ k.inv = j.inv
      /\ k.seen = j.seen /\ k.blob = j.blob
  BY DEF Busy
<1>2. \A q \in Paths : q # p => e[q] = d[q]
  OBVIOUS
<1>3. j.inv.in \in Paths /\ j.inv.out \in Paths
  BY CommandsAssumption DEF Busy
<1> HIDE DEF k, e
<1>4. Shape(k)
  BY <1>1 DEF Shape, Ready
<1>5. Linked(k, e)
  BY <1>1 DEF Linked
<1>6. p \notin {j.inv.in, j.inv.out} => Linked(j, e)
  BY <1>2, <1>3 DEF Linked
<1> QED BY <1>1, <1>4, <1>5, <1>6 DEF k, e

LEMMA WriteStep ==
    ASSUME IInv, NEW w \in Workers, NEW f \in Files, NEW phase \in Phases,
           jobs[w] \in Busy, Write(w, f, phase), UNCHANGED started, Accounted(f),
           JobOK([jobs[w] EXCEPT !.phase = phase], [disk EXCEPT ![Out(w)] = f])
    PROVE  IInv'
<1>1. Out(w) \in Paths
  BY CommandsAssumption DEF Busy, Out
<1>2. disk' = [disk EXCEPT ![Out(w)] = f] /\ disk' \in [Paths -> Files]
  BY <1>1 DEF Write, IInv
<1>3. DOMAIN jobs' = Workers
  BY DEF Write
<1>4. ASSUME NEW v \in Workers PROVE JobOK(jobs'[v], disk')
  <2>1. CASE v = w
    BY <1>2, <2>1 DEF Write
  <2>2. CASE v # w /\ jobs[v] = Idle
    BY <2>2 DEF Write, JobOK
  <2>3. CASE v # w /\ jobs[v] # Idle
    <3>1. jobs[v] \in Busy /\ Shape(jobs[v]) /\ Linked(jobs[v], disk)
      BY <2>3 DEF IInv, JobOK
    <3>2. /\ [jobs[v] EXCEPT !.disturbed = TRUE] \in Busy
          /\ Shape([jobs[v] EXCEPT !.disturbed = TRUE])
          /\ Linked([jobs[v] EXCEPT !.disturbed = TRUE], disk')
          /\ Out(w) \notin {jobs[v].inv.in, jobs[v].inv.out} => Linked(jobs[v], disk')
      BY <1>1, <1>2, <3>1, Bystander DEF IInv
    <3>3. CASE Out(w) \in {In(v), SigIn(v), Out(v)}
      <4>1. jobs'[v] = IF Running(v) THEN [jobs[v] EXCEPT !.disturbed = TRUE] ELSE Idle
        BY <2>3, <3>3 DEF Write
      <4> QED BY <3>2, <4>1 DEF JobOK
    <3>4. CASE Out(w) \notin {In(v), SigIn(v), Out(v)}
      <4>1. jobs'[v] = jobs[v]
        BY <2>3, <3>4 DEF Write
      <4>2. Out(w) \notin {jobs[v].inv.in, jobs[v].inv.out}
        BY <3>4 DEF In, Out
      <4> QED BY <3>1, <3>2, <4>1, <4>2 DEF JobOK
    <3> QED BY <3>3, <3>4
  <2> QED BY <2>1, <2>2, <2>3
<1>5. EmbeddedIsNative'
  <2> SUFFICES ASSUME NEW p \in Paths PROVE Accounted(disk'[p])
    BY DEF EmbeddedIsNative
  <2>1. CASE p = Out(w)
    <3>1. disk'[p] = f
      BY <1>2, <2>1 DEF IInv
    <3> QED BY <3>1
  <2>2. CASE p # Out(w)
    <3>1. disk'[p] = disk[p]
      BY <1>2, <2>2 DEF IInv
    <3> QED BY <3>1 DEF IInv, EmbeddedIsNative
  <2> QED BY <2>1, <2>2
<1> QED BY <1>2, <1>3, <1>4, <1>5 DEF IInv

\* A job that is not idle.
LEMMA AtWork ==
    ASSUME IInv, NEW w \in Workers, NEW phase \in Phases, At(w, phase)
    PROVE  /\ jobs[w] \in Busy /\ Shape(jobs[w]) /\ Linked(jobs[w], disk)
           /\ jobs[w].inv \in [cmd : CommandNames, in : Paths, sigin : Paths, out : Paths,
                               lists : 0 .. 2]
<1>1. jobs[w] # Idle
  BY DEF At, Idle, Phases
<1> QED BY <1>1, CommandsAssumption DEF IInv, JobOK, Busy

----------------------------------------------------------------------------
(* The actions *)

LEMMA InitInv == Init => IInv
<1> SUFFICES ASSUME Init PROVE IInv
  OBVIOUS
<1>1. disk \in [Paths -> Files] /\ started \in 0 .. MaxCommands
  BY CommandsAssumption DEF Init
<1>2. DOMAIN jobs = Workers /\ \A w \in Workers : JobOK(jobs[w], disk)
  BY DEF Init, JobOK
<1>3. EmbeddedIsNative
  BY DEF Init, EmbeddedIsNative, Accounted
<1> QED BY <1>1, <1>2, <1>3 DEF IInv

LEMMA StartInv == ASSUME IInv, NEW w \in Workers, Start(w) PROVE IInv'
<1>1. PICK i \in Invocations : jobs' = [jobs EXCEPT ![w] = Job(i)]
  BY DEF Start
<1>2. i.out \in Paths /\ disk[i.out] \in Files
  BY CommandsAssumption DEF IInv
<1>3. Job(i) \in Busy
  BY <1>2, OtherFiles DEF Job, Busy, Phases
<1>4. /\ Job(i).phase = "begin" /\ Job(i).inv = i /\ Job(i).before = disk[i.out]
      /\ Job(i).seen = Nothing
  BY DEF Job
<1>5. Shape(Job(i)) /\ Linked(Job(i), disk)
  BY <1>4, AccountedFiles DEF Shape, Linked
<1>6. started' \in 0 .. MaxCommands /\ disk' = disk
  BY CommandsAssumption DEF Start, IInv
<1> QED BY <1>1, <1>3, <1>5, <1>6, LocalStep DEF JobOK

LEMMA RefuseInv ==
    ASSUME IInv, NEW w \in Workers, Refuse(w), UNCHANGED started,
           \/ At(w, "begin") \/ At(w, "open_input") \/ At(w, "signing")
           \/ At(w, "open_output")
           \/ At(w, "writing") /\ SignatureMissing(w)
    PROVE  IInv'
<1> DEFINE j == jobs[w]
           k == [j EXCEPT !.phase = "refused"]
<1>1. j \in Busy /\ Linked(j, disk) /\ Accounted(j.seen)
  BY AtWork DEF Phases, Shape
<1>2. jobs' = [jobs EXCEPT ![w] = k] /\ disk' = disk
  BY DEF Refuse
<1>3. /\ k \in Busy /\ k.phase = "refused" /\ k.inv = j.inv /\ k.seen = j.seen
      /\ k.before = j.before /\ k.disturbed = j.disturbed
  BY <1>1 DEF Busy, Phases
<1>4. \/ j.phase \in {"begin", "open_input", "signing", "open_output"}
      \/ j.phase = "writing" /\ j.inv.cmd = "remove" /\ j.seen.table = NoBlob
  BY DEF At, Cmd, SignatureMissing
<1> HIDE DEF j, k
<1>5. Shape(k) /\ Linked(k, disk)
  BY <1>1, <1>3, <1>4 DEF Shape, Linked
<1> QED BY <1>2, <1>3, <1>5, LocalStep DEF JobOK, IInv

LEMMA ReadSignatureInv ==
    ASSUME IInv, NEW w \in Workers, ReadSignature(w), UNCHANGED started PROVE IInv'
<1> DEFINE j == jobs[w]
           b == Normalized(disk[SigIn(w)].blob)
           k == [j EXCEPT !.blob = b, !.phase = "open_input"]
<1>1. j \in Busy /\ Linked(j, disk) /\ SigIn(w) \in Paths /\ j.phase = "begin"
      /\ j.inv.cmd = "attach" /\ Accounted(j.seen)
  BY AtWork DEF Phases, ReadSignature, SigIn, At, Cmd, Shape
<1>2. disk[SigIn(w)].blob \in Blobs
  BY <1>1, FileKinds DEF IInv, ReadSignature
<1>3. b \in Blobs /\ b.form = "native"
  BY <1>2, NormalizedBlob
<1>4. jobs' = [jobs EXCEPT ![w] = k] /\ disk' = disk
  BY DEF ReadSignature, IInv
<1> HIDE DEF b
<1>5. /\ k \in Busy /\ k.phase = "open_input" /\ k.inv = j.inv /\ k.blob = b /\ k.seen = j.seen
      /\ k.before = j.before /\ k.disturbed = j.disturbed
  BY <1>1, <1>3 DEF Busy, Phases
<1> HIDE DEF j, k
<1>6. Shape(k) /\ Linked(k, disk)
  BY <1>1, <1>3, <1>5 DEF Shape, Linked
<1> QED BY <1>4, <1>5, <1>6, LocalStep DEF JobOK, IInv

LEMMA ReadInputInv ==
    ASSUME IInv, NEW w \in Workers, ReadInput(w), UNCHANGED started PROVE IInv'
<1> DEFINE j == jobs[w]
           seen == disk[In(w)]
           b == BlobRead(w)
           next == IF Cmd(w) \in {"sign", "add"} THEN "signing" ELSE "open_output"
           k == [j EXCEPT !.seen = seen, !.blob = b, !.phase = next]
<1>1. /\ j \in Busy /\ Shape(j) /\ Linked(j, disk)
      /\ j.inv.in \in Paths /\ j.inv.out \in Paths /\ j.inv.cmd \in CommandNames
  BY AtWork DEF Phases, ReadInput, AtOpenInput
<1>2. \/ j.phase = "begin" /\ j.inv.cmd \notin {"attach", "remote"}
      \/ j.phase = "open_input"
  BY DEF ReadInput, AtOpenInput, At, Cmd
<1>3. seen \in Files /\ IsImage(seen) /\ seen = disk[j.inv.in] /\ Accounted(seen)
  BY <1>1 DEF IInv, In, ReadInput, InputAccepted, EmbeddedIsNative
<1>4. seen.body \in Bodies /\ seen.table \in Blobs \cup {NoBlob}
  BY <1>3, FileKinds DEF IsImage
<1>5. j.inv.cmd \in {"add", "extract-signature"} => seen.table \in Blobs
  BY <1>4 DEF ReadInput, InputAccepted, IsSigned, Cmd
<1>6. j.inv.cmd \in {"sign", "extract-data"} =>
          b \in Blobs /\ b.covers = seen.body /\ b.stamps = 0
  BY <1>4 DEF BlobRead, Blobs, Forms, Cmd
<1>7. j.inv.cmd \in {"add", "extract-signature"} => b = seen.table
  BY DEF BlobRead, Cmd
<1>8. j.inv.cmd \in {"attach", "remove", "remote"} => b = j.blob
  BY DEF BlobRead, Cmd
<1>9. /\ j.inv.cmd = "attach" => j.blob \in Blobs /\ j.blob.form = "native"
      /\ j.inv.cmd # "remote"
  BY <1>1, <1>2 DEF Shape
<1>10. b \in Blobs \cup {NoBlob} /\ (j.inv.cmd # "remove" => b \in Blobs)
  BY <1>1, <1>5, <1>6, <1>7, <1>8, <1>9 DEF Busy, CommandNames
<1>11. jobs' = [jobs EXCEPT ![w] = k] /\ disk' = disk
  BY DEF ReadInput, IInv
<1>12. next = IF j.inv.cmd \in {"sign", "add"} THEN "signing" ELSE "open_output"
  BY DEF Cmd
<1> HIDE DEF b, seen, next
<1>13. /\ k \in Busy /\ k.phase = next /\ k.inv = j.inv /\ k.blob = b /\ k.seen = seen
       /\ k.before = j.before /\ k.disturbed = j.disturbed
  BY <1>1, <1>3, <1>10, <1>12 DEF Busy, Phases
<1> HIDE DEF j, k
<1>14. Shape(k)
  BY <1>1, <1>3, <1>5, <1>6, <1>7, <1>8, <1>9, <1>10, <1>12, <1>13
     DEF Shape, Ready, Embeds
<1>15. Linked(k, disk)
  BY <1>1, <1>2, <1>3, <1>12, <1>13 DEF Linked
<1> QED BY <1>11, <1>13, <1>14, <1>15, LocalStep DEF JobOK, IInv

LEMMA CreateSignatureInv ==
    ASSUME IInv, NEW w \in Workers, CreateSignature(w), UNCHANGED started PROVE IInv'
<1> DEFINE j == jobs[w]
           b == Made(j.blob, Lists(w))
           k == [j EXCEPT !.blob = b, !.phase = "open_output"]
<1>1. /\ j \in Busy /\ Shape(j) /\ Linked(j, disk) /\ j.phase = "signing"
      /\ j.inv.cmd \in CommandNames /\ j.inv.lists \in 0 .. 2
  BY AtWork DEF Phases, CreateSignature, At
<1>2. j.blob \in Blobs /\ IsImage(j.seen)
  BY <1>1 DEF Shape
<1>3. Lists(w) = j.inv.lists /\ Lists(w) \in Nat
  BY <1>1 DEF Lists
<1>4. /\ b \in Blobs /\ b.form = "native" /\ b.signed /\ b.covers = j.blob.covers
      /\ b.stamps = j.blob.stamps + j.inv.lists
  BY <1>2, <1>3, MadeBlob
<1>5. jobs' = [jobs EXCEPT ![w] = k] /\ disk' = disk
  BY DEF CreateSignature, IInv
<1> HIDE DEF b
<1>6. /\ k \in Busy /\ k.phase = "open_output" /\ k.inv = j.inv /\ k.blob = b
      /\ k.seen = j.seen /\ k.before = j.before /\ k.disturbed = j.disturbed
  BY <1>1, <1>4 DEF Busy, Phases
<1> HIDE DEF j, k
<1>7. Shape(k)
  BY <1>1, <1>2, <1>4, <1>6 DEF Shape, Ready, CommandNames
<1>8. Linked(k, disk)
  BY <1>1, <1>6 DEF Linked
<1> QED BY <1>5, <1>6, <1>7, <1>8, LocalStep DEF JobOK, IInv

LEMMA OpenOutputInv ==
    ASSUME IInv, NEW w \in Workers, OpenOutput(w), UNCHANGED started PROVE IInv'
<1> DEFINE j == jobs[w]
           d == [disk EXCEPT ![Out(w)] = Nothing]
           k == [j EXCEPT !.phase = "writing"]
<1>1. /\ j \in Busy /\ Shape(j) /\ Linked(j, disk) /\ j.phase = "open_output"
      /\ j.inv.in \in Paths /\ j.inv.out \in Paths
  BY AtWork DEF Phases, OpenOutput, At
<1>2. /\ k \in Busy /\ k.phase = "writing" /\ k.inv = j.inv /\ k.blob = j.blob
      /\ k.seen = j.seen /\ k.before = j.before /\ k.disturbed = j.disturbed
  BY <1>1 DEF Busy, Phases
<1>3. d[j.inv.out] = Nothing /\ (j.inv.in # j.inv.out => d[j.inv.in] = disk[j.inv.in])
  BY <1>1 DEF IInv, Out
<1> HIDE DEF d
<1>4. Shape(k)
  BY <1>1, <1>2 DEF Shape, Ready
<1>5. Linked(k, d)
  BY <1>1, <1>2, <1>3 DEF Linked
<1>6. JobOK(k, d)
  BY <1>2, <1>4, <1>5 DEF JobOK
<1>7. Write(w, Nothing, "writing") /\ Accounted(Nothing)
  BY AccountedFiles DEF OpenOutput
<1> QED BY <1>1, <1>6, <1>7, OtherFiles, WriteStep DEF d, Phases

\* What a command that writes has: its image, its blob, files it may meet.
LEMMA AtWriting ==
    ASSUME IInv, NEW w \in Workers, At(w, "writing")
    PROVE  LET j == jobs[w]
           IN  /\ j \in Busy /\ Shape(j) /\ Linked(j, disk) /\ Ready(j) /\ j.phase = "writing"
               /\ j.inv.in \in Paths /\ j.inv.out \in Paths /\ j.inv.cmd \in CommandNames
               /\ j.seen \in Files /\ Accounted(j.seen)
               /\ Cmd(w) = j.inv.cmd /\ In(w) = j.inv.in /\ Out(w) = j.inv.out
               /\ NewTable(w) = Table(j)
               /\ \A p \in Paths : disk[p] \in Files /\ Accounted(disk[p])
<1>1. /\ jobs[w] \in Busy /\ Shape(jobs[w]) /\ Linked(jobs[w], disk)
      /\ jobs[w].inv \in [cmd : CommandNames, in : Paths, sigin : Paths, out : Paths,
                          lists : 0 .. 2]
  BY AtWork DEF Phases
<1>2. Ready(jobs[w]) /\ Accounted(jobs[w].seen) /\ jobs[w].seen \in Files
  BY <1>1 DEF Shape, At, Busy
<1>3. \A p \in Paths : disk[p] \in Files /\ Accounted(disk[p])
  BY DEF IInv, EmbeddedIsNative
<1> QED BY <1>1, <1>2, <1>3 DEF At, Cmd, In, Out, NewTable, Table

\* What the pieces that meet in an output may give.
LEMMA MixedOK ==
    ASSUME IInv, NEW w \in Workers, At(w, "writing"), NEW f \in Mixed(w)
    PROVE  f \in Files /\ Accounted(f)
<1> DEFINE j == jobs[w]
<1>1. /\ Ready(j) /\ j.inv.cmd \in CommandNames \ {"remote"}
      /\ j.seen \in Files /\ Accounted(j.seen) /\ Cmd(w) = j.inv.cmd
      /\ NewTable(w) = Table(j)
      /\ disk[In(w)] \in Files /\ Accounted(disk[In(w)])
      /\ disk[Out(w)] \in Files /\ Accounted(disk[Out(w)])
  BY AtWriting DEF Ready
<1>2. Garbage \in Files /\ Accounted(Garbage)
  BY OtherFiles, AccountedFiles
<1>3. CASE ~WritesImage(w)
  <2>1. j.blob \in Blobs
    BY <1>1, <1>3 DEF WritesImage, Ready
  <2> QED BY <1>2, <1>3, <2>1, Pkcs7File, AccountedFiles DEF Mixed
<1>4. CASE WritesImage(w)
  <2>1. \A file \in Pieces(w) :
            IsImage(file) /\ file \in Files /\ Accounted(file) /\ file.body \in Bodies
    <3>1. \A file \in Pieces(w) : IsImage(file) /\ file \in Files /\ Accounted(file)
      BY <1>1 DEF Pieces
    <3> QED BY <3>1, FileKinds DEF IsImage
  <2>2. NewTable(w) = NoBlob \/ (NewTable(w) \in Blobs /\ NewTable(w).form = "native")
    BY <1>1, <1>4 DEF Table, Ready, Embeds, WritesImage, CommandNames
  <2>3. Torn \in Bodies /\ Strays \subseteq Blobs /\ Strays \subseteq Inherited
    BY CommandsAssumption DEF Bodies, Inherited
  <2>4. CASE f \in {Pe(body, table) : body \in {Torn} \cup {file.body : file \in Pieces(w)},
                                      table \in {NewTable(w), NoBlob}}
    <3>1. PICK body \in Bodies, table \in {NewTable(w), NoBlob} : f = Pe(body, table)
      BY <2>1, <2>3, <2>4
    <3> QED BY <2>2, <3>1, PeFile, AccountedFiles
  <2>5. CASE f \in {Pe(Torn, table) : table \in Strays}
    BY <2>3, <2>5, PeFile, AccountedFiles
  <2>6. CASE f \in {Pe(Torn, table) : table \in {file.table : file \in Pieces(w)}}
    BY <2>1, <2>6, TornIsAccounted
  <2>7. f = Garbage \/ f \in {Pe(body, table) : body \in {Torn} \cup {file.body : file \in Pieces(w)},
                                                table \in {NewTable(w), NoBlob}}
        \/ f \in {Pe(Torn, table) : table \in Strays}
        \/ f \in {Pe(Torn, table) : table \in {file.table : file \in Pieces(w)}}
    BY <1>4 DEF Mixed
  <2> QED BY <1>2, <2>4, <2>5, <2>6, <2>7
<1> QED BY <1>3, <1>4

\* What a command that has all it needs may write.
LEMMA ResultsOK ==
    ASSUME IInv, NEW w \in Workers, At(w, "writing"), NEW f \in Results(w)
    PROVE  /\ f \in Files /\ Accounted(f)
           /\ LET j == jobs[w]
              IN  Alone(w) /\ j.inv.cmd \in Embeds \cup {"remove"} =>
                      f = Pe(j.seen.body, Table(j))
<1> DEFINE j == jobs[w]
<1>1. CASE ~Alone(w)
  <2>1. f \in Mixed(w)
    BY <1>1 DEF Results
  <2> QED BY <1>1, <2>1, MixedOK
<1>2. CASE Alone(w)
  <2>1. f = Whole(w)
    BY <1>2 DEF Results
  <2>2. /\ Ready(j) /\ Linked(j, disk) /\ j.phase = "writing"
        /\ j.inv.in # j.inv.out /\ ~j.disturbed
        /\ j.seen \in Files /\ Cmd(w) = j.inv.cmd /\ In(w) = j.inv.in /\ NewTable(w) = Table(j)
    BY <1>2, AtWriting DEF Alone, In, Out
  <2>3. disk[In(w)] = j.seen
    BY <2>2 DEF Linked
  <2>4. CASE ~WritesImage(w)
    <3>1. f = Pkcs7(j.blob) /\ j.blob \in Blobs
      BY <2>1, <2>2, <2>4 DEF Whole, WritesImage, Ready
    <3> QED BY <2>2, <2>4, <3>1, Pkcs7File, AccountedFiles DEF Embeds, WritesImage
  <2>5. CASE WritesImage(w)
    <3>1. f = Pe(j.seen.body, Table(j))
      BY <2>1, <2>2, <2>3, <2>5 DEF Whole
    <3>2. j.seen.body \in Bodies
      BY <2>2, FileKinds DEF Ready, IsImage
    <3>3. Table(j) = NoBlob \/ (Table(j) \in Blobs /\ Table(j).form = "native")
      BY <2>2, <2>5 DEF Table, Ready, Embeds, WritesImage, CommandNames
    <3> QED BY <3>1, <3>2, <3>3, PeFile, AccountedFiles
  <2> QED BY <2>4, <2>5
<1> QED BY <1>1, <1>2

\* What an output may hold before its command is through.
LEMMA DraftsOK ==
    ASSUME IInv, NEW w \in Workers, At(w, "writing"), NEW f \in Drafts(w)
    PROVE  f \in Files /\ Accounted(f)
<1>1. CASE f \in Results(w)
  BY <1>1, ResultsOK
<1>2. CASE f = Garbage
  BY <1>2, OtherFiles, AccountedFiles
<1>3. CASE f = disk[In(w)]
  BY <1>3, AtWriting
<1>4. CASE \E body \in {Torn, jobs[w].seen.body} : f = Pe(body, NoBlob)
  <2>1. jobs[w].seen.body \in Bodies
    BY AtWriting, FileKinds DEF Ready, IsImage
  <2>2. Torn \in Bodies
    BY DEF Bodies
  <2> QED BY <1>4, <2>1, <2>2, PeFile, AccountedFiles
<1>5. CASE \E stray \in Strays : f = Pe(Torn, stray)
  <2>1. Torn \in Bodies /\ Strays \subseteq Blobs /\ Strays \subseteq Inherited
    BY CommandsAssumption DEF Bodies, Inherited
  <2> QED BY <1>5, <2>1, PeFile, AccountedFiles
<1> QED BY <1>1, <1>2, <1>3, <1>4, <1>5 DEF Drafts

LEMMA WriteDraftInv ==
    ASSUME IInv, NEW w \in Workers, WriteDraft(w), UNCHANGED started PROVE IInv'
<1>1. PICK f \in Drafts(w) : Write(w, f, "writing")
  BY DEF WriteDraft
<1> DEFINE j == jobs[w]
           d == [disk EXCEPT ![Out(w)] = f]
           k == [j EXCEPT !.phase = "writing"]
<1>2. /\ j \in Busy /\ Shape(j) /\ Linked(j, disk) /\ j.phase = "writing"
      /\ j.inv.in \in Paths /\ Out(w) = j.inv.out
  BY AtWriting DEF WriteDraft
<1>3. f \in Files /\ Accounted(f)
  BY DraftsOK DEF WriteDraft
<1>4. k = j
  BY <1>2 DEF Busy
<1>5. ~(j.inv.cmd = "remove" /\ j.seen.table = NoBlob)
  BY DEF WriteDraft, SignatureMissing, Cmd
<1>6. j.inv.in # j.inv.out => d[j.inv.in] = disk[j.inv.in]
  BY <1>2 DEF IInv
<1> HIDE DEF d, k, j
<1>7. Linked(j, d)
  BY <1>2, <1>5, <1>6 DEF Linked
<1>8. JobOK(k, d)
  BY <1>2, <1>4, <1>7 DEF JobOK
<1> QED BY <1>1, <1>2, <1>3, <1>8, WriteStep DEF d, k, j, Phases

LEMMA WriteOutputInv ==
    ASSUME IInv, NEW w \in Workers, WriteOutput(w), UNCHANGED started PROVE IInv'
<1>1. PICK f \in Results(w) : Write(w, f, "done")
  BY DEF WriteOutput
<1> DEFINE j == jobs[w]
           d == [disk EXCEPT ![Out(w)] = f]
           k == [j EXCEPT !.phase = "done"]
<1>2. /\ j \in Busy /\ Shape(j) /\ Linked(j, disk) /\ j.phase = "writing"
      /\ j.inv.in \in Paths /\ j.inv.out \in Paths
      /\ (Alone(w) <=> ~j.disturbed /\ j.inv.in # j.inv.out)
  BY AtWriting DEF WriteOutput, Alone
<1>3. /\ f \in Files /\ Accounted(f)
      /\ Alone(w) /\ j.inv.cmd \in Embeds \cup {"remove"} => f = Pe(j.seen.body, Table(j))
  BY ResultsOK DEF WriteOutput
<1>4. /\ k \in Busy /\ k.phase = "done" /\ k.inv = j.inv /\ k.blob = j.blob
      /\ k.seen = j.seen /\ k.before = j.before /\ k.disturbed = j.disturbed
  BY <1>2 DEF Busy, Phases
<1>5. d[j.inv.out] = f
  BY <1>2 DEF IInv, Out
<1>6. Table(k) = Table(j)
  BY <1>4 DEF Table
<1> HIDE DEF d, k, j
<1>7. Shape(k)
  BY <1>2, <1>4 DEF Shape, Ready
<1>8. Linked(k, d)
  BY <1>2, <1>3, <1>4, <1>5, <1>6 DEF Linked
<1>9. JobOK(k, d)
  BY <1>4, <1>7, <1>8 DEF JobOK
<1> QED BY <1>1, <1>2, <1>3, <1>9, WriteStep DEF d, k, j, Phases

\* A command that dies leaves the files as they are.
LEMMA WriteFailsInv ==
    ASSUME IInv, NEW w \in Workers, WriteFails(w), UNCHANGED started PROVE IInv'
<1>1. jobs' = [jobs EXCEPT ![w] = Idle] /\ disk' = disk
  BY DEF WriteFails
<1> QED BY <1>1, LocalStep DEF JobOK, IInv

LEMMA RemoteSignsInv ==
    ASSUME IInv, NEW w \in Workers, RemoteSigns(w), UNCHANGED started PROVE IInv'
<1> DEFINE j == jobs[w]
           k == [j EXCEPT !.phase = "done"]
           b(form) == [disk[SigIn(w)].blob EXCEPT !.signed = TRUE, !.form = form, !.stamps = 0]
<1>1. /\ j \in Busy /\ j.inv.cmd = "remote" /\ SigIn(w) \in Paths /\ Accounted(j.seen)
  BY AtWork DEF Phases, RemoteSigns, At, Cmd, SigIn, Shape
<1>2. /\ k \in Busy /\ k.phase = "done" /\ k.inv = j.inv /\ k.seen = j.seen
  BY <1>1 DEF Busy, Phases
<1>3. ASSUME NEW d PROVE JobOK(k, d)
  <2> HIDE DEF k, j
  <2> QED BY <1>1, <1>2 DEF JobOK, Shape, Linked, Embeds
<1>4. disk[SigIn(w)].blob \in Blobs
  BY <1>1, FileKinds DEF IInv, RemoteSigns
<1>5. \A form \in Forms : b(form) \in Blobs
  BY <1>4 DEF Blobs
<1>6. PICK form \in Forms : Write(w, Pkcs7(b(form)), "done")
  BY DEF RemoteSigns
<1>7. Pkcs7(b(form)) \in Files /\ Accounted(Pkcs7(b(form)))
  BY <1>5, Pkcs7File, AccountedFiles
<1> QED BY <1>1, <1>3, <1>6, <1>7, WriteStep DEF Phases

----------------------------------------------------------------------------
(* The theorems *)

LEMMA NextInv == IInv /\ [Next]_vars => IInv'
<1> SUFFICES ASSUME IInv, [Next]_vars PROVE IInv'
  OBVIOUS
<1>1. CASE UNCHANGED vars
  BY <1>1 DEF vars, IInv, EmbeddedIsNative
<1>2. ASSUME NEW w \in Workers, Start(w) PROVE IInv'
  BY <1>2, StartInv
<1>3. ASSUME NEW w \in Workers, Command(w), UNCHANGED started PROVE IInv'
  <2>1. CASE ReadSignature(w)
    BY <2>1, <1>3, ReadSignatureInv
  <2>2. CASE ReadSignatureFails(w) \/ ReadInputFails(w) \/ CreateSignatureFails(w)
             \/ RemoteRefuses(w) \/ OpenOutputFails(w) \/ NothingToRemove(w)
    <3>1. Refuse(w)
      BY <2>2 DEF ReadSignatureFails, ReadInputFails, CreateSignatureFails, RemoteRefuses,
         OpenOutputFails, NothingToRemove
    <3>2. \/ At(w, "begin") \/ At(w, "open_input") \/ At(w, "signing")
          \/ At(w, "open_output")
          \/ At(w, "writing") /\ SignatureMissing(w)
      BY <2>2 DEF ReadSignatureFails, ReadInputFails, CreateSignatureFails, RemoteRefuses,
         OpenOutputFails, NothingToRemove, AtOpenInput
    <3> QED BY <1>3, <3>1, <3>2, RefuseInv
  <2>3. CASE ReadInput(w)
    BY <2>3, <1>3, ReadInputInv
  <2>4. CASE CreateSignature(w)
    BY <2>4, <1>3, CreateSignatureInv
  <2>5. CASE OpenOutput(w)
    BY <2>5, <1>3, OpenOutputInv
  <2>6. CASE WriteOutput(w)
    BY <2>6, <1>3, WriteOutputInv
  <2>7. CASE WriteFails(w)
    BY <2>7, <1>3, WriteFailsInv
  <2>8. CASE RemoteSigns(w)
    BY <2>8, <1>3, RemoteSignsInv
  <2>9. CASE WriteDraft(w)
    BY <2>9, <1>3, WriteDraftInv
  <2> QED BY <1>3, <2>1, <2>2, <2>3, <2>4, <2>5, <2>6, <2>7, <2>8, <2>9 DEF Command
<1> QED BY <1>1, <1>2, <1>3 DEF Next

\* The invariant on which the theorems rest.
LEMMA CommandsInvariant == Spec => []IInv
BY InitInv, NextInv, PTL DEF Spec

\* Files and jobs keep their types, and a command that goes on to sign or to
\* write holds what it needs for it.
THEOREM TypeCorrect == Spec => []TypeOK
<1>1. IInv => TypeOK
  <2> SUFFICES ASSUME IInv, NEW w \in Workers, jobs[w] # Idle
               PROVE  /\ jobs[w].inv \in Invocations
                      /\ jobs[w].seen \in Files /\ jobs[w].before \in Files
                      /\ At(w, "signing") => jobs[w].blob \in Blobs
                      /\ At(w, "writing") => IsImage(jobs[w].seen)
                      /\ At(w, "writing") /\ Cmd(w) # "remove" => jobs[w].blob \in Blobs
    BY DEF IInv, TypeOK
  <2>1. jobs[w] \in Busy /\ Shape(jobs[w])
    BY DEF IInv, JobOK
  <2> QED BY <2>1 DEF Busy, Shape, Ready, At, Cmd
<1> QED BY <1>1, CommandsInvariant, PTL

\* However many commands interleave, read each other's unfinished outputs, fail
\* or are killed: a file that shows a PKCS#7 in the envelope Windows rejects had
\* it before any of them ran, as an initial file or as pieces of one.
THEOREM OnlyNativeEmbedded == Spec => []EmbeddedIsNative
<1>1. IInv => EmbeddedIsNative
  BY DEF IInv
<1> QED BY <1>1, CommandsInvariant, PTL

\* A refused command has not touched its output, or has emptied it when there
\* was nothing to remove.
THEOREM RefusalIsHarmless == Spec => []RefusedKeepsOutput
<1>1. IInv => RefusedKeepsOutput
  <2> SUFFICES ASSUME IInv, NEW w \in Workers, At(w, "refused"), ~jobs[w].disturbed
               PROVE  \/ disk[Out(w)] = jobs[w].before
                      \/ Cmd(w) = "remove" /\ disk[Out(w)] = Nothing
    BY DEF RefusedKeepsOutput
  <2> QED BY AtWork DEF Phases, Linked, At, Cmd, Out
<1> QED BY <1>1, CommandsInvariant, PTL

\* A command that succeeds undisturbed gives what its name says.
THEOREM SuccessWhole == Spec => []SuccessIsWhole
<1>1. IInv => SuccessIsWhole
  <2> SUFFICES ASSUME IInv, NEW w \in Workers,
                      At(w, "done"), Alone(w),
                      Cmd(w) \in {"sign", "add", "attach", "remove"}
               PROVE  LET out  == disk[Out(w)]
                          seen == jobs[w].seen
                      IN  /\ IsImage(out) /\ out.body = seen.body
                          /\ Cmd(w) = "sign" => Verifies(out)
                          /\ Cmd(w) = "add" =>
                                 /\ Verifies(out) <=> seen.table.covers = seen.body
                                 /\ out.table.stamps = seen.table.stamps + Lists(w)
                          /\ Cmd(w) = "attach" /\ jobs[w].blob.covers = seen.body
                                 /\ jobs[w].blob.signed => Verifies(out)
                          /\ Cmd(w) = "remove" => ~IsSigned(out)
    BY DEF SuccessIsWhole
  <2> DEFINE j == jobs[w]
             out == disk[j.inv.out]
  <2>1. /\ j \in Busy /\ Shape(j) /\ Linked(j, disk) /\ j.phase = "done"
        /\ j.inv.in # j.inv.out /\ j.inv.cmd \in Embeds \cup {"remove"} /\ ~j.disturbed
        /\ Cmd(w) = j.inv.cmd /\ Out(w) = j.inv.out /\ Lists(w) = j.inv.lists
    BY AtWork DEF Phases, At, In, Out, Cmd, Lists, Embeds, Alone
  <2>2. Ready(j) /\ out = Pe(j.seen.body, Table(j))
    BY <2>1 DEF Shape, Linked, Embeds
  <2>3. j.seen.body \in Bodies /\ Table(j) \in Blobs \cup {NoBlob}
    BY <2>1, <2>2, FileKinds DEF Busy, Ready, IsImage, Table, Embeds
  <2>4. out.kind = "pe" /\ out.body = j.seen.body /\ out.table = Table(j)
    BY <2>2, <2>3, PeFile
  <2>5. j.inv.cmd # "remove" => j.blob \in Blobs /\ j.blob # NoBlob /\ j.blob.form = "native"
    BY <2>1, <2>2, NoBlobIsNone DEF Ready, Embeds
  <2> HIDE DEF j, out
  <2>6. /\ IsImage(out) /\ out.body = j.seen.body
        /\ j.inv.cmd = "sign" => Verifies(out)
        /\ j.inv.cmd = "add" =>
               /\ Verifies(out) <=> j.seen.table.covers = j.seen.body
               /\ out.table.stamps = j.seen.table.stamps + j.inv.lists
        /\ j.inv.cmd = "attach" /\ j.blob.covers = j.seen.body /\ j.blob.signed => Verifies(out)
        /\ j.inv.cmd = "remove" => ~IsSigned(out)
    BY <2>1, <2>2, <2>4, <2>5 DEF Table, Ready, Verifies, IsSigned, IsImage, Embeds
  <2> QED BY <2>1, <2>6 DEF j, out
<1> QED BY <1>1, CommandsInvariant, PTL

=============================================================================
