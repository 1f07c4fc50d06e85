---------------------------- MODULE DatasetsProofs ----------------------------
(***************************************************************************)
(* Proofs about the dataset directory, for any contracts, bar sizes,       *)
(* selections, limit of the history and numbers of rows and gathers: what    *)
(* the files of a manifest hold (IInv), what any file on the disk holds,     *)
(* whichever gathers died (FInv), and what a server replays of it (SInv).    *)
(*                                                                         *)
(* The tape of a contract is a fold that puts row after row at its time.     *)
(* Its invariant, Laid, keeps how many rows there are up to each time; a     *)
(* file that is listed once more adds one to each of its times.              *)
(***************************************************************************)
EXTENDS Datasets, CommonTheorems

-------------------------------------------------------------------------------
(* Series of bars                                                            *)

Row(path, gather, i) == [path |-> path, gather |-> gather, time |-> i, torn |-> FALSE]

\* What is left of a series of n bars after the first k.
After(path, gather, k, n) == [i \in 1..(n - k) |-> Row(path, gather, k + i)]

LEMMA RowType ==
    ASSUME NEW path \in Paths, NEW g \in 1..MaxGathers, NEW i \in 1..MaxRows
    PROVE  Row(path, g, i) \in Rows
BY DEF Row, Rows

LEMMA SeriesType ==
    ASSUME NEW path \in Paths, NEW g \in 1..MaxGathers, NEW n \in 0..MaxRows
    PROVE  Series(path, g, n) \in Seq(Rows) /\ Len(Series(path, g, n)) = n
<1>1. \A i \in 1..n : Row(path, g, i) \in Rows
      BY RowType, DatasetsAssumption
<1>2. Series(path, g, n) = [i \in 1..n |-> Row(path, g, i)]
      BY DEF Series, Row
<1>3. n \in Nat
      BY DatasetsAssumption
<1> QED BY <1>1, <1>2, <1>3

LEMMA AfterType ==
    ASSUME NEW path \in Paths, NEW g \in 1..MaxGathers, NEW n \in 0..MaxRows, NEW k \in 0..n
    PROVE  After(path, g, k, n) \in Seq(Rows) /\ Len(After(path, g, k, n)) = n - k
<1>1. \A i \in 1..(n - k) : k + i \in 1..MaxRows
      BY DatasetsAssumption
<1>2. \A i \in 1..(n - k) : Row(path, g, k + i) \in Rows
      BY <1>1, RowType
<1>3. n - k \in Nat
      BY DatasetsAssumption
<1> QED BY <1>2, <1>3 DEF After

\* Writing moves the first row that is left to the end of the file.
LEMMA WriteOne ==
    ASSUME NEW path \in Paths, NEW g \in 1..MaxGathers, NEW n \in 0..MaxRows, NEW k \in 0..n,
           After(path, g, k, n) # <<>>
    PROVE  /\ k + 1 \in 0..n
           /\ Append(Series(path, g, k), Head(After(path, g, k, n))) = Series(path, g, k + 1)
           /\ Tail(After(path, g, k, n)) = After(path, g, k + 1, n)
<1> DEFINE left == After(path, g, k, n)
           written == Series(path, g, k)
<1>1. left \in Seq(Rows) /\ Len(left) = n - k
      BY AfterType
<1>2. k \in 0..MaxRows /\ n \in Nat /\ k \in Nat
      BY DatasetsAssumption
<1>3. written \in Seq(Rows) /\ Len(written) = k
      BY <1>2, SeriesType
<1>4. n - k >= 1
      BY <1>1, <1>2, EmptySeq
<1>5. k + 1 \in 0..n
      BY <1>2, <1>4
<1>6. Head(left) = Row(path, g, k + 1)
  <2>1. left[1] = Row(path, g, k + 1)
        BY <1>2, <1>4 DEF After
  <2> QED BY <2>1, <1>1, <1>4
<1>7. Append(written, Row(path, g, k + 1)) = Series(path, g, k + 1)
  <2> DEFINE longer == Append(written, Row(path, g, k + 1))
  <2>1. Series(path, g, k + 1) = [i \in 1..(k + 1) |-> Row(path, g, i)]
        BY DEF Series, Row
  <2>2. written = [i \in 1..k |-> Row(path, g, i)]
        BY DEF Series, Row
  <2>3. longer = [i \in 1..(k + 1) |-> Row(path, g, i)]
        BY <1>2, <1>3, <2>2
  <2> QED BY <2>1, <2>3
<1>8. Tail(left) = After(path, g, k + 1, n)
  <2> DEFINE rest == Tail(left)
  <2>1. \A i \in 1..(n - (k + 1)) : left[i + 1] = Row(path, g, (k + 1) + i)
        BY <1>2 DEF After
  <2>2. Len(left) - 1 = n - (k + 1)
        BY <1>1, <1>2
  <2> HIDE DEF left
  <2>3. /\ rest \in Seq(Rows) /\ Len(rest) = n - (k + 1)
        /\ \A i \in 1..Len(rest) : rest[i] = left[i + 1]
        BY <1>1, <2>2, HeadTailProperties, left # <<>> DEF left
  <2> HIDE DEF rest
  <2>4. rest = [i \in 1..(n - (k + 1)) |-> rest[i]]
        BY <2>3
  <2>5. rest = [i \in 1..(n - (k + 1)) |-> Row(path, g, (k + 1) + i)]
        BY <2>1, <2>3, <2>4
  <2> QED BY <2>5 DEF After, rest
<1> QED BY <1>5, <1>6, <1>7, <1>8

-------------------------------------------------------------------------------
(* The invariant: what the files of the running gather hold, and those of a   *)
(* manifest until the next one                                               *)

LastIn(files, i) == \A j \in DOMAIN files : files[j].path = files[i].path => j <= i

FileTold(file) == disk[file.path] = Series(file.path, gathers, file.bars)

\* Every file holds what the last entry about it says, but for those that are open.
FilesTold(files, open) ==
    \A i \in DOMAIN files : LastIn(files, i) /\ files[i].path \notin open => FileTold(files[i])

ConidsOf(files) == {files[i].path.conid : i \in DOMAIN files}

OpenFiles == IF job.step = "write" THEN {Current} ELSE {}

\* The open file is the beginning of a series, what is left its end.
Writing ==
    /\ job.todo # <<>> /\ Current \in Paths
    /\ \E n, k \in 0..MaxRows :
          /\ k <= n
          /\ disk[Current] = Series(Current, gathers, k)
          /\ job.left = After(Current, gathers, k, n)

JobTold ==
    /\ gathers # 0
    /\ ToSet(job.selected) = ConidsOf(job.files) \cup job.errors \cup ToSet(job.todo)
    /\ FilesTold(job.files, OpenFiles)
    /\ job.step = "write" => Writing
    /\ job.step = "manifest" => job.todo = <<>>

ManifestTold ==
    /\ manifest.gather <= gathers
    /\ manifest.gather = gathers =>
          /\ job.step = "idle"
          /\ FilesTold(manifest.files, {})
          /\ ToSet(job.selected) = ConidsOf(manifest.files) \cup manifest.errors

IInv ==
    /\ DirectoryOK
    /\ job.step # "idle" => JobTold
    /\ IsManifest => ManifestTold

-------------------------------------------------------------------------------
(* What the steps need                                                       *)

LEMMA JobFields ==
    ASSUME DirectoryOK
    PROVE  /\ job.step \in {"idle", "fetch", "write", "manifest"}
           /\ job.bar \in Bars /\ job.absolute \in BOOLEAN
           /\ job.selected \in Seq(Contracts \cup Unknown)
           /\ job.todo \in Seq(Contracts \cup Unknown)
           /\ job.left \in Seq(Rows) /\ job.files \in Seq(Files)
           /\ job.errors \in SUBSET (Contracts \cup Unknown)
BY DEF DirectoryOK, Jobs

LEMMA HeadAndRest ==
    ASSUME NEW S, NEW s \in Seq(S), s # <<>>
    PROVE  ToSet(s) = {Head(s)} \cup ToSet(Tail(s))
<1>1. /\ Len(s) \in Nat \ {0} /\ DOMAIN s = 1..Len(s)
      /\ Tail(s) \in Seq(S) /\ Len(Tail(s)) = Len(s) - 1
      /\ \A i \in 1..Len(Tail(s)) : Tail(s)[i] = s[i + 1]
      BY EmptySeq, LenProperties, HeadTailProperties
<1>2. DOMAIN Tail(s) = 1..(Len(s) - 1)
      BY <1>1, LenProperties
<1>3. Head(s) = s[1]
      BY <1>1
<1>4. ASSUME NEW i \in 1..Len(s), i # 1
      PROVE  i - 1 \in 1..(Len(s) - 1) /\ Tail(s)[i - 1] = s[i]
      BY <1>1, <1>4
<1>5. ASSUME NEW x \in ToSet(s)
      PROVE  x \in {Head(s)} \cup ToSet(Tail(s))
  <2>1. PICK i \in 1..Len(s) : x = s[i]
        BY <1>1 DEF ToSet
  <2>2. CASE i = 1
        BY <2>1, <2>2, <1>3
  <2>3. CASE i # 1
        BY <2>1, <2>3, <1>2, <1>4 DEF ToSet
  <2> QED BY <2>2, <2>3
<1>6. ASSUME NEW x \in ToSet(Tail(s))
      PROVE  x \in ToSet(s)
  <2>1. PICK i \in 1..(Len(s) - 1) : x = Tail(s)[i]
        BY <1>2 DEF ToSet
  <2>2. i + 1 \in 1..Len(s) /\ x = s[i + 1]
        BY <2>1, <1>1
  <2> QED BY <2>2, <1>1 DEF ToSet
<1>7. Head(s) \in ToSet(s)
      BY <1>1, <1>3 DEF ToSet
<1> QED BY <1>5, <1>6, <1>7

LEMMA CurrentType ==
    ASSUME DirectoryOK, Head(job.todo) \in Contracts
    PROVE  Current \in Paths /\ Current.conid = Head(job.todo)
BY JobFields DEF Current, Path, Paths

LEMMA RestingType == Resting \in Jobs
<1>1. (CHOOSE b \in Bars : TRUE) \in Bars
      BY DatasetsAssumption
<1>2. \A S : <<>> \in Seq(S)
      BY EmptySeq
<1> QED BY <1>1, <1>2 DEF Resting, Jobs

LEMMA GathersType == DirectoryOK => gathers \in Nat /\ gathers <= MaxGathers /\ MaxGathers \in Nat
BY DatasetsAssumption DEF DirectoryOK

LEMMA ManifestFields ==
    ASSUME DirectoryOK, IsManifest
    PROVE  manifest \in Manifests /\ manifest.gather \in Nat
BY DatasetsAssumption DEF DirectoryOK, IsManifest, Manifests

\* While a gather runs, the manifest that can be read is that of an earlier one.
LEMMA ManifestIsOlder ==
    ASSUME IInv, job.step # "idle", IsManifest
    PROVE  manifest.gather < gathers
BY ManifestFields, GathersType DEF IInv, ManifestTold

\* A step of a running gather that leaves the manifest alone leaves it older.
LEMMA OlderStaysOlder ==
    ASSUME IInv, job.step # "idle", UNCHANGED <<manifest, gathers>>, IsManifest'
    PROVE  ManifestTold'
<1>1. IsManifest
      BY DEF IsManifest
<1>2. manifest.gather < gathers /\ manifest.gather \in Nat /\ gathers \in Nat
      BY <1>1, ManifestIsOlder, ManifestFields, GathersType DEF IInv
<1> QED BY <1>2 DEF ManifestTold

-------------------------------------------------------------------------------
(* The collector                                                             *)

LEMMA GatherKeeps ==
    ASSUME IInv, NEW selection \in Selections, NEW bar \in Bars, NEW absolute \in BOOLEAN,
           Gather(selection, bar, absolute)
    PROVE  IInv'
<1> DEFINE selected == IF selection = <<>> THEN AllContracts ELSE selection
<1>1. selected \in Seq(Contracts \cup Unknown)
  <2>1. AllContracts \in Seq(Contracts \cup Unknown)
        BY DatasetsAssumption, Contracts \subseteq Contracts \cup Unknown
  <2>2. selection \in Seq(Contracts \cup Unknown)
        BY DatasetsAssumption
  <2> QED BY <2>1, <2>2
<1>2. job' = [Resting EXCEPT !.step = "fetch", !.bar = bar, !.absolute = absolute,
                             !.selected = selected, !.todo = selected]
      BY DEF Gather
<1> HIDE DEF selected
<1>3. /\ job'.step = "fetch" /\ job'.selected = selected /\ job'.todo = selected
      /\ job'.files = <<>> /\ job'.errors = {}
      BY <1>2 DEF Resting
<1>4. job' \in Jobs
      BY <1>1, <1>2, RestingType DEF Jobs
<1>5. gathers' = gathers + 1 /\ gathers < MaxGathers /\ UNCHANGED <<disk, manifest>>
      BY DEF Gather
<1>6. DirectoryOK /\ gathers \in Nat /\ MaxGathers \in Nat
      BY GathersType DEF IInv
<1>7. DirectoryOK'
      BY <1>4, <1>5, <1>6 DEF DirectoryOK
<1>8. JobTold'
  <2>1. ConidsOf(job'.files) = {}
        BY <1>3 DEF ConidsOf
  <2>2. FilesTold(job.files, OpenFiles)'
        BY <1>3 DEF FilesTold
  <2> QED BY <1>3, <1>5, <1>6, <2>1, <2>2 DEF JobTold
<1>9. ASSUME IsManifest'
      PROVE  ManifestTold'
  <2>1. IsManifest
        BY <1>5, <1>9 DEF IsManifest
  <2>2. manifest.gather <= gathers /\ manifest.gather \in Nat
        BY <1>6, <2>1, ManifestFields DEF IInv, ManifestTold
  <2> QED BY <1>5, <1>6, <2>2 DEF ManifestTold
<1> QED BY <1>7, <1>8, <1>9 DEF IInv

LEMMA FetchFailsKeeps ==
    ASSUME IInv, FetchFails
    PROVE  IInv'
<1> DEFINE conid == Head(job.todo)
<1>1. /\ job.step = "fetch" /\ job.todo # <<>> /\ UNCHANGED <<disk, manifest, gathers>>
      /\ job' = [job EXCEPT !.errors = job.errors \cup {conid}, !.todo = Tail(job.todo)]
      BY DEF FetchFails, Failed
<1>2. DirectoryOK /\ JobTold
      BY <1>1 DEF IInv
<1>3. conid \in Contracts \cup Unknown /\ Tail(job.todo) \in Seq(Contracts \cup Unknown)
      BY <1>1, <1>2, JobFields, HeadTailProperties
<1>4. ToSet(job.todo) = {conid} \cup ToSet(Tail(job.todo))
      BY <1>1, <1>2, JobFields, HeadAndRest
<1> HIDE DEF conid
<1>5. /\ job'.step = "fetch" /\ job'.selected = job.selected /\ job'.todo = Tail(job.todo)
      /\ job'.files = job.files /\ job'.errors = job.errors \cup {conid}
      BY <1>1, <1>2 DEF DirectoryOK, Jobs
<1>6. DirectoryOK'
  <2>1. job' \in Jobs
        BY <1>1, <1>2, <1>3 DEF DirectoryOK, Jobs
  <2> QED BY <1>1, <1>2, <2>1 DEF DirectoryOK
<1>7. JobTold'
  <2>1. FilesTold(job.files, OpenFiles)'
        BY <1>1, <1>2, <1>5 DEF JobTold, FilesTold, OpenFiles, FileTold
  <2>2. ToSet(job.selected)' = (ConidsOf(job.files) \cup job.errors \cup ToSet(job.todo))'
        BY <1>2, <1>4, <1>5 DEF JobTold
  <2> QED BY <1>1, <1>2, <1>5, <2>1, <2>2 DEF JobTold
<1>8. ASSUME IsManifest'
      PROVE  ManifestTold'
      BY <1>1, <1>8, OlderStaysOlder
<1> QED BY <1>6, <1>7, <1>8 DEF IInv

LEMMA OpenFileKeeps ==
    ASSUME IInv, OpenFile
    PROVE  IInv'
<1>1. /\ job.step = "fetch" /\ job.todo # <<>> /\ Head(job.todo) \in Contracts
      /\ UNCHANGED <<manifest, gathers>> /\ disk' = [disk EXCEPT ![Current] = <<>>]
      BY DEF OpenFile, Opened
<1>2. PICK n \in 0..MaxRows :
          job' = [job EXCEPT !.step = "write", !.left = Series(Current, gathers, n)]
      BY DEF OpenFile
<1>3. DirectoryOK /\ JobTold
      BY <1>1 DEF IInv
<1>4. Current \in Paths
      BY <1>1, <1>3, CurrentType
<1>5. /\ job'.step = "write" /\ job'.selected = job.selected /\ job'.todo = job.todo
      /\ job'.files = job.files /\ job'.errors = job.errors /\ job'.bar = job.bar
      /\ job'.left = Series(Current, gathers, n)
      BY <1>2, <1>3 DEF DirectoryOK, Jobs
<1>6. Current' = Current
      BY <1>5 DEF Current
<1>7. gathers \in 1..MaxGathers /\ n \in Nat /\ MaxRows \in Nat
      BY <1>3, GathersType, DatasetsAssumption DEF JobTold
<1>8. DirectoryOK'
  <2>1. Series(Current, gathers, n) \in Seq(Rows)
        BY <1>4, <1>7, SeriesType
  <2>2. job' \in Jobs
        BY <1>2, <1>3, <2>1 DEF DirectoryOK, Jobs
  <2>3. disk' \in [Paths -> Seq(Rows) \cup {NoFile}]
        BY <1>1, <1>3, <1>4, EmptySeq DEF DirectoryOK
  <2> QED BY <1>1, <1>3, <2>2, <2>3 DEF DirectoryOK
<1>9. JobTold'
  <2>1. ASSUME NEW i \in DOMAIN job.files, LastIn(job.files, i), job.files[i].path # Current
        PROVE  FileTold(job.files[i])'
    <3>1. FileTold(job.files[i]) /\ job.files[i] \in Files
          BY <1>1, <1>3, <2>1, JobFields DEF JobTold, FilesTold, OpenFiles
    <3>2. disk'[job.files[i].path] = disk[job.files[i].path]
          BY <1>1, <1>3, <2>1, <3>1 DEF DirectoryOK, Files
    <3> QED BY <1>1, <1>5, <3>1, <3>2 DEF FileTold
  <2>2. FilesTold(job.files, OpenFiles)'
        BY <1>5, <1>6, <2>1 DEF FilesTold, OpenFiles, FileTold
  <2>3. Writing'
    <3>1. Series(Current, gathers, 0) = <<>>
          BY <1>4, <1>7, SeriesType, EmptySeq
    <3>2. disk'[Current] = <<>>
          BY <1>1, <1>3, <1>4 DEF DirectoryOK
    <3>3. Series(Current, gathers, n) = After(Current, gathers, 0, n)
          BY <1>7 DEF Series, After, Row
    <3>4. 0 \in 0..MaxRows /\ 0 <= n
          BY <1>7
    <3> QED BY <1>1, <1>4, <1>5, <1>6, <3>1, <3>2, <3>3, <3>4 DEF Writing
  <2>4. ConidsOf(job.files)' = ConidsOf(job.files)
        BY <1>5 DEF ConidsOf
  <2> QED BY <1>1, <1>3, <1>5, <2>2, <2>3, <2>4 DEF JobTold
<1>10. IsManifest' => ManifestTold'
       BY <1>1, OlderStaysOlder
<1> QED BY <1>8, <1>9, <1>10 DEF IInv

\* What the open file holds and what is left of its series.
LEMMA OpenFileFields ==
    ASSUME IInv, job.step = "write"
    PROVE  /\ DirectoryOK /\ JobTold /\ job.todo # <<>> /\ Current \in Paths
           /\ gathers \in 1..MaxGathers
           /\ \E n, k \in 0..MaxRows :
                 /\ k <= n
                 /\ disk[Current] = Series(Current, gathers, k)
                 /\ job.left = After(Current, gathers, k, n)
BY GathersType DEF IInv, JobTold, Writing

LEMMA WriteRowKeeps ==
    ASSUME IInv, WriteRow
    PROVE  IInv'
<1>1. /\ job.step = "write" /\ job.left # <<>> /\ UNCHANGED <<manifest, gathers>>
      /\ disk' = [disk EXCEPT ![Current] = Append(disk[Current], Head(job.left))]
      /\ job' = [job EXCEPT !.left = Tail(job.left)]
      BY DEF WriteRow
<1>2. /\ DirectoryOK /\ JobTold /\ job.todo # <<>> /\ Current \in Paths
      /\ gathers \in 1..MaxGathers
      BY <1>1, OpenFileFields
<1>3. PICK n, k \in 0..MaxRows :
          /\ k <= n
          /\ disk[Current] = Series(Current, gathers, k)
          /\ job.left = After(Current, gathers, k, n)
      BY <1>1, OpenFileFields
<1>4. /\ k + 1 \in 0..n
      /\ Append(disk[Current], Head(job.left)) = Series(Current, gathers, k + 1)
      /\ Tail(job.left) = After(Current, gathers, k + 1, n)
  <2>1. k \in 0..n
        BY <1>3, DatasetsAssumption
  <2> QED BY <1>1, <1>2, <1>3, <2>1, WriteOne
<1>5. /\ job'.step = "write" /\ job'.selected = job.selected /\ job'.todo = job.todo
      /\ job'.files = job.files /\ job'.errors = job.errors /\ job'.bar = job.bar
      /\ job'.left = Tail(job.left)
      BY <1>1, <1>2 DEF DirectoryOK, Jobs
<1>6. Current' = Current
      BY <1>5 DEF Current
<1>7. DirectoryOK'
  <2>1. n \in Nat /\ MaxRows \in Nat /\ k + 1 \in 0..MaxRows
        BY <1>4, DatasetsAssumption
  <2>2. Series(Current, gathers, k + 1) \in Seq(Rows)
        BY <1>2, <2>1, SeriesType
  <2>3. After(Current, gathers, k + 1, n) \in Seq(Rows)
        BY <1>2, <1>4, AfterType
  <2>4. job' \in Jobs
        BY <1>1, <1>2, <1>4, <2>3 DEF DirectoryOK, Jobs
  <2>5. disk' \in [Paths -> Seq(Rows) \cup {NoFile}]
        BY <1>1, <1>2, <1>4, <2>2 DEF DirectoryOK
  <2> QED BY <1>1, <1>2, <2>4, <2>5 DEF DirectoryOK
<1>8. JobTold'
  <2>1. ASSUME NEW i \in DOMAIN job.files, LastIn(job.files, i), job.files[i].path # Current
        PROVE  FileTold(job.files[i])'
    <3>1. FileTold(job.files[i]) /\ job.files[i] \in Files
      <4>1. FilesTold(job.files, OpenFiles) /\ job.files \in Seq(Files)
            BY <1>1, <1>2, JobFields DEF JobTold
      <4>2. job.files[i] \in Files
            BY <2>1, <4>1, ElementOfSeq
      <4>3. job.files[i].path \notin OpenFiles
            BY <2>1 DEF OpenFiles
      <4> QED BY <2>1, <4>1, <4>2, <4>3 DEF FilesTold
    <3>2. disk'[job.files[i].path] = disk[job.files[i].path]
          BY <1>1, <1>2, <2>1, <3>1 DEF DirectoryOK, Files
    <3> QED BY <1>1, <1>5, <3>1, <3>2 DEF FileTold
  <2>2. FilesTold(job.files, OpenFiles)'
        BY <1>5, <1>6, <2>1 DEF FilesTold, OpenFiles, FileTold
  <2>3. disk'[Current] = Series(Current, gathers, k + 1)
        BY <1>1, <1>2, <1>4 DEF DirectoryOK
  <2>4. Writing'
    <3>1. k + 1 \in 0..MaxRows /\ k + 1 <= n
          BY <1>4, DatasetsAssumption
    <3> QED BY <1>1, <1>2, <1>4, <1>5, <1>6, <2>3, <3>1 DEF Writing
  <2>5. ConidsOf(job.files)' = ConidsOf(job.files)
        BY <1>5 DEF ConidsOf
  <2> QED BY <1>1, <1>2, <1>5, <2>2, <2>4, <2>5 DEF JobTold
<1>9. IsManifest' => ManifestTold'
      BY <1>1, OlderStaysOlder
<1> QED BY <1>7, <1>8, <1>9 DEF IInv

LEMMA CloseFileKeeps ==
    ASSUME IInv, CloseFile
    PROVE  IInv'
<1> DEFINE file == [path |-> Current, bars |-> Len(disk[Current])]
           files == Append(job.files, file)
<1>1. /\ job.step = "write" /\ job.left = <<>> /\ UNCHANGED <<disk, manifest, gathers>>
      /\ job' = [job EXCEPT !.step = "fetch", !.todo = Tail(job.todo), !.files = files]
      BY DEF CloseFile, Rest
<1>2. /\ DirectoryOK /\ JobTold /\ job.todo # <<>> /\ Current \in Paths
      /\ gathers \in 1..MaxGathers
      BY <1>1, OpenFileFields
<1>3. PICK n, k \in 0..MaxRows :
          /\ k <= n
          /\ disk[Current] = Series(Current, gathers, k)
          /\ job.left = After(Current, gathers, k, n)
      BY <1>1, OpenFileFields
<1>4. n \in Nat /\ k = n
  <2>1. n \in Nat /\ k \in 0..n
        BY <1>3, DatasetsAssumption
  <2>2. Len(job.left) = n - k
        BY <1>2, <1>3, <2>1, AfterType
  <2> QED BY <1>1, <2>1, <2>2, EmptySeq
<1>5. file.path = Current /\ file.bars = n /\ file \in Files /\ FileTold(file)
  <2>1. Len(disk[Current]) = n
        BY <1>2, <1>3, <1>4, SeriesType
  <2> QED BY <1>2, <1>3, <1>4, <2>1 DEF Files, FileTold
<1>6. ToSet(job.todo) = {Current.conid} \cup ToSet(Tail(job.todo))
  <2>1. Current.conid = Head(job.todo)
        BY DEF Current, Path
  <2> QED BY <1>2, <2>1, JobFields, HeadAndRest
<1>7. job.files \in Seq(Files) /\ Tail(job.todo) \in Seq(Contracts \cup Unknown)
      BY <1>2, JobFields, HeadTailProperties
<1> HIDE DEF file
<1>8. /\ files \in Seq(Files) /\ Len(job.files) \in Nat /\ DOMAIN job.files = 1..Len(job.files)
      /\ DOMAIN files = 1..(Len(job.files) + 1) /\ files[Len(job.files) + 1] = file
      /\ \A i \in 1..Len(job.files) : files[i] = job.files[i]
      BY <1>5, <1>7, AppendProperties, LenProperties
<1> HIDE DEF files
<1>9. /\ job'.step = "fetch" /\ job'.selected = job.selected /\ job'.todo = Tail(job.todo)
      /\ job'.files = files /\ job'.errors = job.errors
      BY <1>1, <1>2 DEF DirectoryOK, Jobs
<1>10. DirectoryOK'
  <2>1. job' \in Jobs
        BY <1>1, <1>2, <1>7, <1>8 DEF DirectoryOK, Jobs
  <2> QED BY <1>1, <1>2, <2>1 DEF DirectoryOK
<1>11. JobTold'
  <2>1. ASSUME NEW i \in DOMAIN files, LastIn(files, i)
        PROVE  FileTold(files[i])
    <3>1. CASE i = Len(job.files) + 1
          BY <1>5, <1>8, <3>1
    <3>2. CASE i \in 1..Len(job.files)
      <4>1. files[i].path # Current
            BY <1>5, <1>8, <2>1, <3>2 DEF LastIn
      <4>2. LastIn(job.files, i)
            BY <1>8, <2>1, <3>2 DEF LastIn
      <4> QED BY <1>1, <1>2, <1>8, <3>2, <4>1, <4>2 DEF JobTold, FilesTold, OpenFiles
    <3> QED BY <1>8, <3>1, <3>2
  <2>2. FilesTold(job.files, OpenFiles)'
        BY <1>1, <1>9, <2>1 DEF FilesTold, FileTold
  <2>3. ConidsOf(files) = ConidsOf(job.files) \cup {Current.conid}
    <3>1. ASSUME NEW i \in DOMAIN files
          PROVE  files[i].path.conid \in ConidsOf(job.files) \cup {Current.conid}
      <4>1. CASE i = Len(job.files) + 1
            BY <1>5, <1>8, <4>1
      <4>2. CASE i \in 1..Len(job.files)
        <5>1. files[i] = job.files[i] /\ i \in DOMAIN job.files
              BY <1>8, <4>2
        <5> QED BY <5>1 DEF ConidsOf
      <4> QED BY <1>8, <3>1, <4>1, <4>2
    <3>2. ASSUME NEW i \in DOMAIN job.files
          PROVE  job.files[i].path.conid \in ConidsOf(files)
          BY <1>8 DEF ConidsOf
    <3>3. Current.conid \in ConidsOf(files)
          BY <1>5, <1>8 DEF ConidsOf
    <3> QED BY <3>1, <3>2, <3>3 DEF ConidsOf
  <2>4. ToSet(job.selected)' = (ConidsOf(job.files) \cup job.errors \cup ToSet(job.todo))'
        BY <1>2, <1>6, <1>9, <2>3 DEF JobTold
  <2> QED BY <1>1, <1>2, <1>9, <2>2, <2>4 DEF JobTold
<1>12. IsManifest' => ManifestTold'
       BY <1>1, OlderStaysOlder
<1> QED BY <1>10, <1>11, <1>12 DEF IInv

LEMMA OpenManifestKeeps ==
    ASSUME IInv, OpenManifest
    PROVE  IInv'
<1>1. /\ job.step = "fetch" /\ job.todo = <<>> /\ manifest' = TornManifest
      /\ job' = [job EXCEPT !.step = "manifest"] /\ UNCHANGED <<disk, gathers>>
      BY DEF OpenManifest
<1>2. DirectoryOK /\ JobTold
      BY <1>1 DEF IInv
<1>3. /\ job'.step = "manifest" /\ job'.selected = job.selected /\ job'.todo = job.todo
      /\ job'.files = job.files /\ job'.errors = job.errors
      BY <1>1, <1>2 DEF DirectoryOK, Jobs
<1>4. DirectoryOK'
  <2>1. job' \in Jobs
        BY <1>1, <1>2 DEF DirectoryOK, Jobs
  <2> QED BY <1>1, <1>2, <2>1 DEF DirectoryOK
<1>5. JobTold'
  <2>1. FilesTold(job.files, OpenFiles)'
        BY <1>1, <1>2, <1>3 DEF JobTold, FilesTold, OpenFiles, FileTold
  <2>2. ConidsOf(job.files)' = ConidsOf(job.files)
        BY <1>3 DEF ConidsOf
  <2> QED BY <1>1, <1>2, <1>3, <2>1, <2>2 DEF JobTold
<1> QED BY <1>1, <1>4, <1>5 DEF IInv, IsManifest

LEMMA CloseManifestKeeps ==
    ASSUME IInv, CloseManifest
    PROVE  IInv'
<1>1. /\ job.step = "manifest" /\ UNCHANGED <<disk, gathers>>
      /\ manifest' = [gather |-> gathers, files |-> job.files, errors |-> job.errors,
                      absolute |-> job.absolute]
      /\ job' = [job EXCEPT !.step = "idle"]
      BY DEF CloseManifest
<1>2. DirectoryOK /\ JobTold /\ gathers \in 1..MaxGathers /\ gathers \in Nat
      BY <1>1, GathersType DEF IInv, JobTold
<1>3. job'.step = "idle" /\ job'.selected = job.selected
      BY <1>1, <1>2 DEF DirectoryOK, Jobs
<1>4. manifest'.gather = gathers /\ manifest'.files = job.files /\ manifest'.errors = job.errors
      BY <1>1
<1>5. DirectoryOK'
  <2>1. job' \in Jobs
        BY <1>1, <1>2 DEF DirectoryOK, Jobs
  <2>2. manifest' \in Manifests
        BY <1>1, <1>2, JobFields DEF Manifests
  <2> QED BY <1>1, <1>2, <2>1, <2>2 DEF DirectoryOK
<1>6. ManifestTold'
  <2>1. FilesTold(manifest.files, {})'
        BY <1>1, <1>2, <1>4 DEF JobTold, FilesTold, OpenFiles, FileTold
  <2>2. job.todo = <<>> /\ ToSet(<<>>) = {}
        BY <1>1, <1>2 DEF JobTold, ToSet
  <2>3. ToSet(job.selected)' = (ConidsOf(manifest.files) \cup manifest.errors)'
        BY <1>2, <1>3, <1>4, <2>2 DEF JobTold, ConidsOf
  <2> QED BY <1>1, <1>2, <1>3, <1>4, <2>1, <2>3 DEF ManifestTold
<1> QED BY <1>3, <1>5, <1>6 DEF IInv

LEMMA CollectorCrashesKeeps ==
    ASSUME IInv, CollectorCrashes
    PROVE  IInv'
<1>1. job.step # "idle" /\ job' = Resting /\ UNCHANGED <<manifest, gathers>>
      BY DEF CollectorCrashes
<1>2. DirectoryOK
      BY DEF IInv
<1>3. disk' \in [Paths -> Seq(Rows) \cup {NoFile}]
  <2>1. CASE UNCHANGED disk
        BY <1>2, <2>1 DEF DirectoryOK
  <2>2. CASE /\ job.step = "write" /\ job.left # <<>>
             /\ disk' = [disk EXCEPT ![Current] =
                            Append(disk[Current], [Head(job.left) EXCEPT !.torn = TRUE])]
    <3>1. Current \in Paths /\ gathers \in 1..MaxGathers
          BY <2>2, OpenFileFields
    <3>2. PICK k \in 0..MaxRows : disk[Current] = Series(Current, gathers, k)
          BY <2>2, OpenFileFields
    <3>3. disk[Current] \in Seq(Rows)
          BY <3>1, <3>2, SeriesType
    <3>4. Head(job.left) \in Rows
          BY <1>2, <2>2, JobFields, HeadTailProperties
    <3>5. [Head(job.left) EXCEPT !.torn = TRUE] \in Rows
          BY <3>4 DEF Rows
    <3>6. Append(disk[Current], [Head(job.left) EXCEPT !.torn = TRUE]) \in Seq(Rows)
          BY <3>3, <3>5, AppendProperties
    <3> QED BY <1>2, <2>2, <3>1, <3>6 DEF DirectoryOK
  <2> QED BY <2>1, <2>2 DEF CollectorCrashes
<1>4. DirectoryOK'
      BY <1>1, <1>2, <1>3, RestingType DEF DirectoryOK
<1>5. job'.step = "idle"
      BY <1>1 DEF Resting
<1>6. IsManifest' => ManifestTold'
      BY <1>1, OlderStaysOlder
<1> QED BY <1>4, <1>5, <1>6 DEF IInv

-------------------------------------------------------------------------------
(* Every step, and what follows                                              *)

LEMMA InitHolds == Init => IInv
<1> SUFFICES ASSUME Init PROVE IInv
    OBVIOUS
<1>1. DirectoryOK
      BY RestingType, DatasetsAssumption DEF Init, DirectoryOK
<1>2. job.step = "idle" /\ ~IsManifest
      BY DEF Init, Resting, IsManifest
<1> QED BY <1>1, <1>2 DEF IInv

LEMMA UnchangedKeeps ==
    ASSUME IInv, UNCHANGED <<disk, manifest, gathers, job>>
    PROVE  IInv'
<1>1. DirectoryOK'
      BY DEF IInv, DirectoryOK
<1>2. Current' = Current /\ OpenFiles' = OpenFiles
      BY DEF Current, OpenFiles
<1>3. JobTold => JobTold'
      BY <1>2 DEF JobTold, FilesTold, FileTold, ConidsOf, Writing
<1>4. ManifestTold => ManifestTold'
      BY DEF ManifestTold, FilesTold, FileTold, ConidsOf
<1> QED BY <1>1, <1>3, <1>4 DEF IInv, IsManifest

LEMMA NextKeeps == IInv /\ [Next]_vars => IInv'
<1> SUFFICES ASSUME IInv, [Next]_vars PROVE IInv'
    OBVIOUS
<1>1. ASSUME NEW selection \in Selections, NEW bar \in Bars, NEW absolute \in BOOLEAN,
             Gather(selection, bar, absolute)
      PROVE  IInv'
      BY <1>1, GatherKeeps
<1>2. CASE FetchFails
      BY <1>2, FetchFailsKeeps
<1>3. CASE OpenFile
      BY <1>3, OpenFileKeeps
<1>4. CASE WriteRow
      BY <1>4, WriteRowKeeps
<1>5. CASE CloseFile
      BY <1>5, CloseFileKeeps
<1>6. CASE OpenManifest
      BY <1>6, OpenManifestKeeps
<1>7. CASE CloseManifest
      BY <1>7, CloseManifestKeeps
<1>8. CASE CollectorCrashes
      BY <1>8, CollectorCrashesKeeps
<1>9. CASE UNCHANGED <<disk, manifest, gathers, job>>
      BY <1>9, UnchangedKeeps
<1>10. ASSUME NEW reaches \in BOOLEAN, StartServer(reaches) \/ StartFails(reaches)
       PROVE  UNCHANGED <<disk, manifest, gathers, job>>
       BY <1>10 DEF StartServer, StartFails
<1>11. StopServer => UNCHANGED <<disk, manifest, gathers, job>>
       BY DEF StopServer
<1> QED BY <1>1, <1>2, <1>3, <1>4, <1>5, <1>6, <1>7, <1>8, <1>9, <1>10, <1>11 DEF Next, vars

\* An entry that is the last one about its path is the one LastEntry chooses.
LEMMA LastEntryIsLast ==
    ASSUME DirectoryOK, IsManifest, NEW i \in DOMAIN manifest.files
    PROVE  LET path == manifest.files[i].path IN
           \E j \in DOMAIN manifest.files : /\ LastIn(manifest.files, j)
                                            /\ manifest.files[j].path = path
                                            /\ LastEntry(path) = manifest.files[j]
<1> DEFINE path == manifest.files[i].path
           S == EntriesOf(path)
           j == CHOOSE k \in S : \A m \in S : m <= k
<1>1. manifest.files \in Seq(Files)
      BY ManifestFields DEF Manifests
<1>2. Len(manifest.files) \in Nat /\ DOMAIN manifest.files = 1..Len(manifest.files)
      BY <1>1, LenProperties
<1>3. i \in S /\ S \subseteq 1..Len(manifest.files)
      BY <1>2 DEF EntriesOf
<1>4. \E k \in S : \A m \in S : m <= k
      BY <1>2, <1>3, GreatestElement
<1>5. j \in S /\ \A m \in S : m <= j
      BY <1>4
<1>6. LastEntry(path) = manifest.files[j]
      BY DEF LastEntry
<1> HIDE DEF j
<1> QED BY <1>5, <1>6 DEF LastIn, EntriesOf

LEMMA InvTellsFiles == IInv => ManifestTellsTheFiles
<1> SUFFICES ASSUME IInv, IsManifest, manifest.gather = gathers
             PROVE  /\ \A i \in DOMAIN manifest.files :
                          LET path == manifest.files[i].path IN
                          disk[path] = Series(path, gathers, LastEntry(path).bars)
                    /\ ToSet(job.selected) =
                          {manifest.files[i].path.conid : i \in DOMAIN manifest.files}
                             \cup manifest.errors
    BY DEF ManifestTellsTheFiles
<1>1. DirectoryOK /\ ManifestTold
      BY DEF IInv
<1>2. ASSUME NEW i \in DOMAIN manifest.files
      PROVE  LET path == manifest.files[i].path IN
             disk[path] = Series(path, gathers, LastEntry(path).bars)
  <2>1. PICK j \in DOMAIN manifest.files :
               /\ LastIn(manifest.files, j)
               /\ manifest.files[j].path = manifest.files[i].path
               /\ LastEntry(manifest.files[i].path) = manifest.files[j]
        BY <1>1, LastEntryIsLast
  <2>2. FileTold(manifest.files[j])
        BY <1>1, <2>1 DEF ManifestTold, FilesTold
  <2> QED BY <2>1, <2>2 DEF FileTold
<1> QED BY <1>1, <1>2 DEF ManifestTold, ConidsOf

-------------------------------------------------------------------------------
(* The tape of a contract, row by row                                        *)

\* The rows up to a time, however many.
UpToTime(tape, time) == {i \in DOMAIN tape : tape[i].time <= time}

PlacedOr(tape, row, c) == IF row.path.conid = c THEN Placed(tape, row) ELSE tape

LEMMA PlacedIs ==
    ASSUME NEW tape \in Seq(Rows), NEW row \in Rows
    PROVE  LET k == Cardinality(UpToTime(tape, row.time)) IN
           k \in 0..Len(tape) /\ WithRow(Placed(tape, row), Rows, tape, row, k)
<1> DEFINE S == UpToTime(tape, row.time)
           k == Cardinality(S)
<1>1. S \in SUBSET (1..Len(tape)) /\ Len(tape) \in Nat
      BY LenProperties DEF UpToTime
<1>2. IsFiniteSet(1..Len(tape)) /\ Cardinality(1..Len(tape)) = Len(tape)
      BY <1>1, SizeOfFirst
<1>3. IsFiniteSet(S) /\ k <= Len(tape)
      BY <1>1, <1>2, FS_Subset
<1>4. k \in 0..Len(tape)
      BY <1>1, <1>3, FS_CardinalityType
<1>5. Placed(tape, row) = InsertAt(tape, k + 1, row)
      BY DEF Placed, UpToTime
<1> HIDE DEF k
<1>6. WithRow(InsertAt(tape, k + 1, row), Rows, tape, row, k)
      BY <1>4, InsertAtIs
<1> QED BY <1>4, <1>5, <1>6 DEF k

LEMMA PlacedType ==
    ASSUME NEW tape \in Seq(Rows), NEW row \in Rows, NEW c
    PROVE  PlacedOr(tape, row, c) \in Seq(Rows)
BY PlacedIs DEF PlacedOr, WithRow

TapeStep(s, c, g, T) == IF T = {} THEN <<>> ELSE PlacedOr(g[T \ {Max(T)}], s[Max(T)], c)

TapeFcn(s, c) == CHOOSE g : g = [T \in SUBSET (DOMAIN s) |-> TapeStep(s, c, g, T)]

\* The tape of the first k rows.
TapeFrom(s, c, k) == TapeFcn(s, c)[1..k]

LEMMA TapeSteps ==
    ASSUME NEW s \in Seq(Rows), NEW c
    PROVE  /\ TapeOf(s, c) = TapeFrom(s, c, Len(s))
           /\ TapeFrom(s, c, 0) = <<>>
           /\ \A k \in 0..(Len(s) - 1) :
                 TapeFrom(s, c, k + 1) = PlacedOr(TapeFrom(s, c, k), s[k + 1], c)
           /\ TapeOf(s, c) \in Seq(Rows)
<1> DEFINE X == Seq(Rows)
           op == [p \in X \X Rows |-> PlacedOr(p[1], p[2], c)]
           F == TapeFcn(s, c)
<1>1. /\ Len(s) \in Nat /\ DOMAIN s = 1..Len(s)
      /\ \A i \in 1..Len(s) : s[i] \in Rows
      BY LenProperties, ElementOfSeq
<1>2. \A x \in X, e \in Rows : op[<<x, e>>] = PlacedOr(x, e, c)
      OBVIOUS
<1>3. op \in [X \X Rows -> X]
      BY PlacedType
<1> HIDE DEF op
<1>4. HasFold(op, <<>>, s, X, Len(s))
  <2>1. <<>> \in X
        OBVIOUS
  <2> HIDE DEF X
  <2> QED BY <1>1, <1>3, <2>1, FoldExists
<1>5. PICK g \in [SUBSET (1..Len(s)) -> X] :
              \A T \in SUBSET (1..Len(s)) : g[T] = FoldStep(op, <<>>, s, g, T)
      BY <1>4 DEF HasFold
<1>6. ASSUME NEW T \in SUBSET (1..Len(s)) PROVE g[T] = TapeStep(s, c, g, T)
  <2>1. CASE T = {}
        BY <1>5, <2>1 DEF FoldStep, TapeStep
  <2>2. CASE T # {}
    <3>1. g[T \ {Max(T)}] \in X /\ s[Max(T)] \in Rows
          BY <1>1, <2>2, FoldArguments
    <3> HIDE DEF X
    <3>2. g[T] = op[<<g[T \ {Max(T)}], s[Max(T)]>>]
          BY <1>5, <2>2 DEF FoldStep
    <3> QED BY <1>2, <2>2, <3>1, <3>2 DEF TapeStep
  <2> QED BY <2>1, <2>2
<1>7. g = [T \in SUBSET (DOMAIN s) |-> TapeStep(s, c, g, T)]
      BY <1>1, <1>6
<1>8. F = [T \in SUBSET (DOMAIN s) |-> TapeStep(s, c, F, T)]
      BY <1>7 DEF TapeFcn
<1> HIDE DEF F
<1>9. F[1..0] = <<>>
      BY <1>1, <1>8 DEF TapeStep
<1>10. ASSUME NEW k \in 0..(Len(s) - 1) PROVE F[1..(k + 1)] = PlacedOr(F[1..k], s[k + 1], c)
  <2>1. 1..(k + 1) \in SUBSET (DOMAIN s) /\ k \in Nat
        BY <1>1
  <2>2. F[1..(k + 1)] = TapeStep(s, c, F, 1..(k + 1))
        BY <1>8, <2>1
  <2> QED BY <2>1, <2>2, FirstOnes DEF TapeStep
<1>11. TapeOf(s, c) = F[DOMAIN s]
      BY DEF TapeOf, FoldLeft, MapThenFoldSet, TapeFcn, TapeStep, PlacedOr, F
<1> DEFINE N == {k \in Nat : k <= Len(s) => F[1..k] \in X}
<1>12. 0 \in N
  <2>1. F[1..0] \in X
        BY <1>9
  <2> QED BY <2>1
<1>13. ASSUME NEW k \in Nat, k \in N PROVE k + 1 \in N
  <2> SUFFICES ASSUME k + 1 <= Len(s) PROVE F[1..(k + 1)] \in X
      OBVIOUS
  <2>1. k \in 0..(Len(s) - 1) /\ F[1..k] \in X /\ s[k + 1] \in Rows
        BY <1>1, <1>13
  <2> QED BY <1>10, <2>1, PlacedType
<1>14. Len(s) \in N
  <2> HIDE DEF N
  <2> QED BY <1>1, <1>12, <1>13, SetInduction
<1>15. TapeOf(s, c) \in Seq(Rows)
       BY <1>1, <1>11, <1>14
<1> QED BY <1>1, <1>9, <1>10, <1>11, <1>15 DEF TapeFrom, F

\* A file whose rows are a series from its first bar on.
InSeries(f) == f \in Seq(Rows) /\ \A i \in 1..Len(f) : f[i].time = i

\* Every row of the tape is one of f, and b[t] of them are up to time t.
Laid(tape, f, b) ==
    /\ tape \in Seq(Rows)
    /\ b \in [0..Len(f) -> 0..Len(tape)]
    /\ \A i \in 1..Len(tape) : tape[i].time \in 1..Len(f) /\ tape[i] = f[tape[i].time]
    /\ \A i \in 1..Len(tape), t \in 0..Len(f) : tape[i].time <= t <=> i <= b[t]

\* One row more at time t0.
OneMore(b, t0) == [t \in DOMAIN b |-> IF t < t0 THEN b[t] ELSE b[t] + 1]

LEMMA BoundsRise ==
    ASSUME NEW tape, NEW f, InSeries(f), NEW b, Laid(tape, f, b),
           NEW s \in 0..Len(f), NEW t \in 0..Len(f), s <= t
    PROVE  b[s] <= b[t]
<1>1. /\ Len(f) \in Nat /\ Len(tape) \in Nat /\ b[s] \in 0..Len(tape) /\ b[t] \in 0..Len(tape)
      /\ \A i \in 1..Len(tape), u \in 0..Len(f) : tape[i].time <= u <=> i <= b[u]
      /\ \A i \in 1..Len(tape) : tape[i].time \in 1..Len(f)
      BY LenProperties DEF Laid, InSeries
<1>2. CASE b[s] = 0
      BY <1>1, <1>2
<1>3. CASE b[s] # 0
  <2> DEFINE i == b[s]
  <2>1. i \in 1..Len(tape)
        BY <1>1, <1>3
  <2>2. tape[i].time <= s
        BY <1>1, <2>1
  <2>3. tape[i].time \in Nat /\ tape[i].time <= t
        BY <1>1, <2>1, <2>2
  <2> QED BY <1>1, <2>1, <2>3
<1> QED BY <1>2, <1>3

LEMMA LaysOneMore ==
    ASSUME NEW tape, NEW f, InSeries(f), NEW b, Laid(tape, f, b), NEW t0 \in 1..Len(f)
    PROVE  Laid(Placed(tape, f[t0]), f, OneMore(b, t0))
<1> DEFINE row == f[t0]
           q == b[t0]
           r == Placed(tape, row)
           d == OneMore(b, t0)
           n == Len(f)
           m == Len(tape)
<1>1. /\ n \in Nat /\ m \in Nat /\ t0 \in 0..n
      /\ tape \in Seq(Rows) /\ f \in Seq(Rows) /\ row \in Rows /\ row.time = t0
      BY LenProperties, ElementOfSeq DEF Laid, InSeries
<1>2. /\ b \in [0..n -> 0..m]
      /\ \A i \in 1..m : tape[i].time \in 1..n /\ tape[i] = f[tape[i].time]
      /\ \A i \in 1..m, t \in 0..n : tape[i].time <= t <=> i <= b[t]
      BY DEF Laid
<1>3. q \in 0..m
      BY <1>1, <1>2
<1>4. Cardinality(UpToTime(tape, row.time)) = q
  <2>1. DOMAIN tape = 1..m
        BY <1>1, LenProperties
  <2>2. UpToTime(tape, row.time) = {i \in 1..m : i <= q}
        BY <1>1, <1>2, <2>1 DEF UpToTime
  <2> HIDE DEF q, m
  <2>3. {i \in 1..m : i <= q} = 1..q
        BY <1>1, <1>3
  <2>4. q \in Nat
        BY <1>3
  <2> QED BY <2>2, <2>3, <2>4, SizeOfFirst
<1>5. WithRow(r, Rows, tape, row, q)
      BY <1>1, <1>4, PlacedIs
<1>6. \A t \in 0..n : /\ b[t] \in 0..m
                      /\ t < t0 => b[t] <= q
                      /\ ~(t < t0) => q <= b[t]
  <2>1. \A t \in 0..n : t < t0 => t <= t0
        BY <1>1
  <2>2. \A t \in 0..n : ~(t < t0) => t0 <= t
        BY <1>1
  <2>3. \A s, t \in 0..n : s <= t => b[s] <= b[t]
        BY BoundsRise
  <2> QED BY <1>1, <1>2, <2>1, <2>2, <2>3
<1>7. \A t \in 0..n : d[t] = IF t < t0 THEN b[t] ELSE b[t] + 1
      BY <1>2 DEF OneMore
<1>8. DOMAIN d = 0..n
      BY <1>2 DEF OneMore
<1>9. d = [t \in 0..n |-> d[t]]
      BY <1>2 DEF OneMore
<1>10. /\ r \in Seq(Rows) /\ Len(r) = m + 1
       /\ \A i \in 1..q : r[i] = tape[i]
       /\ r[q + 1] = row
       /\ \A i \in (q + 2)..(m + 1) : r[i] = tape[i - 1]
       BY <1>5 DEF WithRow
<1> HIDE DEF row, q, r, d, n, m
<1>11. \A t \in 0..n : d[t] \in 0..(m + 1)
       BY <1>1, <1>6, <1>7
<1>12. d \in [0..n -> 0..(m + 1)]
       BY <1>9, <1>11
<1>13. ASSUME NEW i \in 1..(m + 1)
       PROVE  /\ r[i].time \in 1..n /\ r[i] = f[r[i].time]
              /\ \A t \in 0..n : r[i].time <= t <=> i <= d[t]
  <2>1. CASE i \in 1..q
    <3>1. i \in 1..m /\ r[i] = tape[i]
          BY <1>1, <1>3, <1>10, <2>1
    <3>2. tape[i].time <= t0
          BY <1>1, <1>2, <2>1, <3>1 DEF q
    <3>3. ASSUME NEW t \in 0..n PROVE r[i].time <= t <=> i <= d[t]
      <4>1. CASE t < t0
            BY <1>2, <1>7, <3>1, <4>1
      <4>2. CASE ~(t < t0)
        <5>1. i <= b[t] + 1 /\ i <= b[t]
              BY <1>3, <1>6, <2>1, <4>2
        <5> QED BY <1>2, <1>7, <3>1, <4>2, <5>1
      <4> QED BY <4>1, <4>2
    <3> QED BY <1>2, <3>1, <3>3
  <2>2. CASE i = q + 1
    <3>1. r[i] = row /\ row.time = t0 /\ row = f[t0] /\ t0 \in 1..n
          BY <1>1, <1>10, <2>2 DEF row, n
    <3>2. ASSUME NEW t \in 0..n PROVE t0 <= t <=> q + 1 <= d[t]
      <4>1. CASE t < t0
            BY <1>1, <1>3, <1>6, <1>7, <4>1
      <4>2. CASE ~(t < t0)
            BY <1>1, <1>3, <1>6, <1>7, <4>2
      <4> QED BY <4>1, <4>2
    <3> QED BY <2>2, <3>1, <3>2
  <2>3. CASE i \in (q + 2)..(m + 1)
    <3>1. i - 1 \in 1..m /\ r[i] = tape[i - 1] /\ ~(i - 1 <= q)
          BY <1>1, <1>3, <1>10, <2>3
    <3>2. tape[i - 1].time \in 1..n /\ ~(tape[i - 1].time <= t0)
      <4>1. tape[i - 1].time <= t0 <=> i - 1 <= q
            BY <1>1, <1>2, <3>1 DEF q
      <4> QED BY <1>2, <3>1, <4>1
    <3>3. ASSUME NEW t \in 0..n PROVE tape[i - 1].time <= t <=> i <= d[t]
      <4>1. CASE t < t0
        <5>1. ~(tape[i - 1].time <= t)
              BY <1>1, <3>2, <4>1
        <5>2. ~(i <= b[t])
              BY <1>1, <1>3, <1>6, <3>1, <4>1
        <5> QED BY <1>7, <4>1, <5>1, <5>2
      <4>2. CASE ~(t < t0)
        <5>1. tape[i - 1].time <= t <=> i - 1 <= b[t]
              BY <1>2, <3>1
        <5>2. i - 1 <= b[t] <=> i <= b[t] + 1
              BY <1>1, <1>6
        <5> QED BY <1>7, <4>2, <5>1, <5>2
      <4> QED BY <4>1, <4>2
    <3> QED BY <1>2, <3>1, <3>3
  <2> QED BY <1>1, <1>3, <2>1, <2>2, <2>3
<1>14. /\ r \in Seq(Rows)
       /\ d \in [0..Len(f) -> 0..Len(r)]
       /\ \A i \in 1..Len(r) : r[i].time \in 1..Len(f) /\ r[i] = f[r[i].time]
       /\ \A i \in 1..Len(r), t \in 0..Len(f) : r[i].time <= t <=> i <= d[t]
       BY <1>10, <1>12, <1>13 DEF n
<1> QED BY <1>14 DEF Laid, r, d, row

\* The rows of f, m times each, and those of the first k bars once more.
Stage(f, m, k) == [t \in 0..Len(f) |-> (t * m) + (IF t <= k THEN t ELSE k)]

\* The file s begins behind the first o rows.
HasFile(rows, o, s) ==
    /\ rows \in Seq(Rows) /\ s \in Seq(Rows) /\ o \in Nat /\ o + Len(s) <= Len(rows)
    /\ \A i \in 1..Len(s) : rows[o + i] = s[i]

LEMMA FileStep ==
    ASSUME NEW rows, NEW o, NEW s, HasFile(rows, o, s), NEW c, NEW k \in Nat, k + 1 <= Len(s)
    PROVE  TapeFrom(rows, c, o + (k + 1)) = PlacedOr(TapeFrom(rows, c, o + k), s[k + 1], c)
<1>1. /\ rows \in Seq(Rows) /\ Len(rows) \in Nat /\ Len(s) \in Nat /\ o \in Nat
      /\ o + Len(s) <= Len(rows) /\ rows[o + (k + 1)] = s[k + 1]
      BY LenProperties DEF HasFile
<1>2. /\ o + k \in 0..(Len(rows) - 1)
      /\ (o + k) + 1 = o + (k + 1)
      BY <1>1
<1>3. TapeFrom(rows, c, (o + k) + 1) = PlacedOr(TapeFrom(rows, c, o + k), rows[(o + k) + 1], c)
      BY <1>1, <1>2, TapeSteps
<1> QED BY <1>1, <1>2, <1>3

\* A file of another contract leaves the tape alone.
LEMMA SkipsAFile ==
    ASSUME NEW rows, NEW o, NEW s, HasFile(rows, o, s), NEW c,
           \A i \in 1..Len(s) : s[i].path.conid # c
    PROVE  TapeFrom(rows, c, o + Len(s)) = TapeFrom(rows, c, o)
<1> DEFINE N == {k \in Nat : k <= Len(s) => TapeFrom(rows, c, o + k) = TapeFrom(rows, c, o)}
<1>1. Len(s) \in Nat /\ o \in Nat
      BY LenProperties DEF HasFile
<1>2. 0 \in N
      BY <1>1, o + 0 = o
<1>3. ASSUME NEW k \in Nat, k \in N PROVE k + 1 \in N
  <2> SUFFICES ASSUME k + 1 <= Len(s)
               PROVE  TapeFrom(rows, c, o + (k + 1)) = TapeFrom(rows, c, o)
      OBVIOUS
  <2>1. TapeFrom(rows, c, o + k) = TapeFrom(rows, c, o)
        BY <1>1, <1>3
  <2>2. s[k + 1].path.conid # c
        BY <1>1
  <2> QED BY <2>1, <2>2, FileStep DEF PlacedOr
<1>4. Len(s) \in N
  <2> HIDE DEF N
  <2> QED BY <1>1, <1>2, <1>3, SetInduction
<1> QED BY <1>4

\* The file of the contract once more.
LEMMA LaysAFile ==
    ASSUME NEW rows, NEW o, NEW f, HasFile(rows, o, f), InSeries(f), NEW c,
           \A i \in 1..Len(f) : f[i].path.conid = c,
           NEW m \in Nat, Laid(TapeFrom(rows, c, o), f, Stage(f, m, 0))
    PROVE  Laid(TapeFrom(rows, c, o + Len(f)), f, Stage(f, m + 1, 0))
<1> DEFINE N == {k \in Nat : k <= Len(f) => Laid(TapeFrom(rows, c, o + k), f, Stage(f, m, k))}
<1>1. Len(f) \in Nat /\ o \in Nat
      BY LenProperties DEF HasFile
<1>2. 0 \in N
      BY <1>1, o + 0 = o
<1>3. ASSUME NEW k \in Nat, k \in N PROVE k + 1 \in N
  <2> SUFFICES ASSUME k + 1 <= Len(f)
               PROVE  Laid(TapeFrom(rows, c, o + (k + 1)), f, Stage(f, m, k + 1))
      OBVIOUS
  <2>1. Laid(TapeFrom(rows, c, o + k), f, Stage(f, m, k))
        BY <1>1, <1>3
  <2>2. k + 1 \in 1..Len(f) /\ f[k + 1].path.conid = c
        BY <1>1
  <2>3. TapeFrom(rows, c, o + (k + 1)) = Placed(TapeFrom(rows, c, o + k), f[k + 1])
        BY <2>2, FileStep DEF PlacedOr
  <2>4. OneMore(Stage(f, m, k), k + 1) = Stage(f, m, k + 1)
    <3>1. ASSUME NEW t \in 0..Len(f), NEW x \in Nat
          PROVE  (IF t < k + 1 THEN x + (IF t <= k THEN t ELSE k)
                               ELSE (x + (IF t <= k THEN t ELSE k)) + 1)
                    = x + (IF t <= k + 1 THEN t ELSE k + 1)
          BY <1>1
    <3>2. \A t \in 0..Len(f) : t * m \in Nat
          BY <1>1
    <3> QED BY <3>1, <3>2 DEF OneMore, Stage
  <2>5. Laid(Placed(TapeFrom(rows, c, o + k), f[k + 1]), f, OneMore(Stage(f, m, k), k + 1))
        BY <2>1, <2>2, LaysOneMore
  <2> QED BY <2>3, <2>4, <2>5
<1>4. Len(f) \in N
  <2> HIDE DEF N
  <2> QED BY <1>1, <1>2, <1>3, SetInduction
<1>5. Stage(f, m, Len(f)) = Stage(f, m + 1, 0)
  <2>1. ASSUME NEW t \in 0..Len(f)
        PROVE  (t * m) + (IF t <= Len(f) THEN t ELSE Len(f))
                  = (t * (m + 1)) + (IF t <= 0 THEN t ELSE 0)
    <3>1. t \in Nat /\ t <= Len(f) /\ t * (m + 1) = (t * m) + t /\ t * m \in Nat
          BY <1>1
    <3>2. (IF t <= 0 THEN t ELSE 0) = 0
          BY <3>1
    <3> QED BY <3>1, <3>2
  <2> QED BY <2>1 DEF Stage
<1> QED BY <1>1, <1>4, <1>5

\* The first k listed files of the contract.
Of(listed, c, k) == {i \in 1..k : listed[i].conid = c}

LEMMA OfOneMore ==
    ASSUME NEW listed, NEW c, NEW k \in Nat
    PROVE  /\ IsFiniteSet(Of(listed, c, k)) /\ Cardinality(Of(listed, c, k)) \in Nat
           /\ Cardinality(Of(listed, c, k + 1)) =
                 Cardinality(Of(listed, c, k)) + (IF listed[k + 1].conid = c THEN 1 ELSE 0)
<1> DEFINE S == Of(listed, c, k)
<1>1. IsFiniteSet(S)
  <2>1. S \in SUBSET (1..k)
        BY DEF Of
  <2>2. IsFiniteSet(1..k)
        BY FS_Interval
  <2> QED BY <2>1, <2>2, FS_Subset
<1>2. Cardinality(S) \in Nat
      BY <1>1, FS_CardinalityType
<1>3. Of(listed, c, k + 1) = IF listed[k + 1].conid = c THEN S \cup {k + 1} ELSE S
      BY DEF Of
<1>4. k + 1 \notin S
      BY DEF Of
<1>5. Cardinality(S \cup {k + 1}) = Cardinality(S) + 1
  <2> HIDE DEF S
  <2> QED BY <1>1, <1>4, FS_AddElement
<1> HIDE DEF S
<1> QED BY <1>1, <1>2, <1>3, <1>5 DEF S

\* All listed files are there, in order, and those of the contract are f.
ListsOf(listed, c, f) ==
    /\ listed \in Seq(Paths)
    /\ \A i \in 1..Len(listed) :
          /\ InSeries(disk[listed[i]])
          /\ \A j \in 1..Len(disk[listed[i]]) : disk[listed[i]][j].path = listed[i]
          /\ listed[i].conid = c => disk[listed[i]] = f

\* Each row of f on the tape, in order, as often as its file is listed.
LEMMA TapeIsLaid ==
    ASSUME NEW listed, NEW c, NEW f, InSeries(f), \A i \in 1..Len(f) : f[i].path.conid = c,
           ListsOf(listed, c, f)
    PROVE  /\ Loaded(listed) \in Seq(Rows)
           /\ LET m == Cardinality(Of(listed, c, Len(listed))) IN
              Laid(TapeOf(Loaded(listed), c), f, Stage(f, m, 0))
<1> DEFINE seqs == [i \in DOMAIN listed |-> disk[listed[i]]]
           rows == Loaded(listed)
           n == Len(listed)
           m(k) == Cardinality(Of(listed, c, k))
<1>1. n \in Nat /\ DOMAIN listed = 1..n /\ Len(f) \in Nat
      BY LenProperties DEF ListsOf, InSeries
<1>2. \A i \in 1..n : disk[listed[i]] \in Seq(Rows)
      BY DEF ListsOf, InSeries
<1>3. seqs \in Seq(Seq(Rows)) /\ Len(seqs) = n /\ \A i \in 1..n : seqs[i] = disk[listed[i]]
  <2>1. seqs = [i \in 1..n |-> disk[listed[i]]]
        BY <1>1
  <2> QED BY <1>1, <1>2, <2>1
<1>4. rows = FlattenSeq(seqs)
      BY DEF Loaded
<1> HIDE DEF seqs
<1>5. rows \in Seq(Rows)
      BY <1>3, <1>4, FlattenJoins
<1>6. PICK off : Begins(off, seqs) /\ Joined(rows, off, seqs)
      BY <1>3, <1>4, FlattenJoins
<1> HIDE DEF rows, n
<1>7. /\ off \in [0..n -> Nat] /\ off[0] = 0 /\ off[n] = Len(rows)
      /\ \A k \in 1..n : off[k] = off[k - 1] + Len(seqs[k])
      /\ \A k \in 1..n : \A i \in 1..Len(seqs[k]) : rows[off[k - 1] + i] = seqs[k][i]
      BY <1>3, <1>6 DEF Begins, Joined
<1>8. \A k \in 1..n : Len(seqs[k]) \in Nat
      BY <1>2, <1>3, LenProperties
<1>9. \A k \in 0..n : off[k] <= Len(rows)
  <2> DEFINE M == {k \in Nat : k <= n => off[n - k] <= Len(rows)}
  <2>1. 0 \in M
        BY <1>1, <1>7, n - 0 = n, LenProperties, <1>5
  <2>2. ASSUME NEW k \in Nat, k \in M PROVE k + 1 \in M
    <3> SUFFICES ASSUME k + 1 <= n PROVE off[n - (k + 1)] <= Len(rows)
        OBVIOUS
    <3> DEFINE j == n - k
    <3>1. j \in 1..n /\ j - 1 = n - (k + 1) /\ j - 1 \in 0..n /\ j \in 0..n
          BY <1>1
    <3>2. off[j] <= Len(rows)
          BY <1>1, <2>2
    <3> HIDE DEF j
    <3>3. off[j] = off[j - 1] + Len(seqs[j]) /\ off[j - 1] \in Nat /\ Len(seqs[j]) \in Nat
          BY <1>7, <1>8, <3>1
    <3>4. Len(rows) \in Nat
          BY <1>5, LenProperties
    <3>5. off[j - 1] <= Len(rows)
          BY <3>2, <3>3, <3>4
    <3> QED BY <3>1, <3>5
  <2>3. Nat \subseteq M
    <3> HIDE DEF M
    <3> QED BY <2>1, <2>2, SetInduction
  <2> SUFFICES ASSUME NEW k \in 0..n PROVE off[k] <= Len(rows)
      OBVIOUS
  <2>4. n - k \in Nat /\ n - k <= n /\ n - (n - k) = k
        BY <1>1
  <2>5. n - k \in M
        BY <2>3, <2>4
  <2> QED BY <2>4, <2>5
<1>10. ASSUME NEW k \in 0..n, k + 1 <= n
       PROVE  HasFile(rows, off[k], seqs[k + 1]) /\ off[k + 1] = off[k] + Len(seqs[k + 1])
  <2>1. k + 1 \in 1..n /\ (k + 1) - 1 = k /\ k + 1 \in 0..n
        BY <1>1, <1>10
  <2>2. /\ off[k + 1] = off[k] + Len(seqs[k + 1]) /\ off[k] \in Nat /\ off[k + 1] <= Len(rows)
        /\ \A i \in 1..Len(seqs[k + 1]) : rows[off[k] + i] = seqs[k + 1][i]
        BY <1>7, <1>9, <2>1
  <2>3. seqs[k + 1] \in Seq(Rows)
        BY <1>2, <1>3, <2>1
  <2> QED BY <1>5, <2>2, <2>3 DEF HasFile
<1> DEFINE N == {k \in Nat : k <= n => Laid(TapeFrom(rows, c, off[k]), f, Stage(f, m(k), 0))}
<1>11. 0 \in N
  <2>1. TapeFrom(rows, c, off[0]) = <<>>
        BY <1>5, <1>7, TapeSteps
  <2>2. m(0) = 0
    <3>1. Of(listed, c, 0) = {}
          BY DEF Of
    <3> QED BY <3>1, FS_EmptySet
  <2>3. Stage(f, 0, 0) = [t \in 0..Len(f) |-> 0]
    <3>1. \A t \in 0..Len(f) : (t * 0) + (IF t <= 0 THEN t ELSE 0) = 0
          BY <1>1
    <3> QED BY <3>1 DEF Stage
  <2>4. Laid(<<>>, f, [t \in 0..Len(f) |-> 0])
    <3>1. <<>> \in Seq(Rows) /\ Len(<<>>) = 0
          OBVIOUS
    <3>2. \A i \in 1..Len(<<>>) : FALSE
          BY <3>1
    <3>3. [t \in 0..Len(f) |-> 0] \in [0..Len(f) -> 0..Len(<<>>)]
          BY <3>1
    <3> QED BY <3>1, <3>2, <3>3 DEF Laid
  <2> QED BY <2>1, <2>2, <2>3, <2>4
<1>12. ASSUME NEW k \in Nat, k \in N PROVE k + 1 \in N
  <2> SUFFICES ASSUME k + 1 <= n
               PROVE  Laid(TapeFrom(rows, c, off[k + 1]), f, Stage(f, m(k + 1), 0))
      OBVIOUS
  <2>1. k \in 0..n /\ k + 1 \in 1..n
        BY <1>1
  <2>2. HasFile(rows, off[k], seqs[k + 1]) /\ off[k + 1] = off[k] + Len(seqs[k + 1])
        BY <1>10, <2>1
  <2>3. Laid(TapeFrom(rows, c, off[k]), f, Stage(f, m(k), 0))
        BY <1>1, <1>12
  <2>4. m(k) \in Nat /\ m(k + 1) = m(k) + (IF listed[k + 1].conid = c THEN 1 ELSE 0)
        BY OfOneMore
  <2> DEFINE s == seqs[k + 1]
             x == m(k)
             y == m(k + 1)
  <2>5. s = disk[listed[k + 1]]
        BY <1>3, <2>1
  <2> HIDE DEF s, x, y, m
  <2>6. CASE listed[k + 1].conid = c
    <3>1. s = f
          BY <2>1, <2>5, <2>6 DEF ListsOf, n
    <3>2. y = x + 1 /\ x \in Nat
          BY <2>4, <2>6 DEF x, y
    <3>3. Laid(TapeFrom(rows, c, off[k]), f, Stage(f, x, 0))
          BY <2>3 DEF x
    <3>4. HasFile(rows, off[k], f)
          BY <2>2, <3>1 DEF s
    <3>5. Laid(TapeFrom(rows, c, off[k] + Len(f)), f, Stage(f, x + 1, 0))
          BY <3>2, <3>3, <3>4, LaysAFile
    <3> QED BY <2>2, <3>1, <3>2, <3>5 DEF s, y
  <2>7. CASE listed[k + 1].conid # c
    <3>1. \A i \in 1..Len(s) : s[i].path.conid # c
          BY <2>1, <2>5, <2>7 DEF ListsOf, n
    <3>2. HasFile(rows, off[k], s)
          BY <2>2 DEF s
    <3>3. TapeFrom(rows, c, off[k] + Len(s)) = TapeFrom(rows, c, off[k])
          BY <3>1, <3>2, SkipsAFile
    <3>4. y = x
          BY <2>4, <2>7 DEF x, y
    <3> QED BY <2>2, <2>3, <3>3, <3>4 DEF s, x, y
  <2> QED BY <2>6, <2>7
<1>13. Nat \subseteq N
  <2> HIDE DEF N
  <2> QED BY <1>11, <1>12, SetInduction
<1>14. Laid(TapeFrom(rows, c, off[n]), f, Stage(f, m(n), 0))
       BY <1>1, <1>13
<1>15. TapeOf(rows, c) = TapeFrom(rows, c, Len(rows))
       BY <1>5, TapeSteps
<1>16. Laid(TapeOf(rows, c), f, Stage(f, m(n), 0))
       BY <1>7, <1>14, <1>15
<1> QED BY <1>5, <1>16 DEF rows, n

LEMMA QuotientBetween ==
    ASSUME NEW m \in Nat, NEW t \in Nat \ {0}, NEW i \in Nat \ {0},
           i <= t * m, ~(i <= (t - 1) * m)
    PROVE  m # 0 /\ ((i - 1) \div m) + 1 = t
<1>1. m # 0
  <2> SUFFICES ASSUME m = 0 PROVE FALSE
      OBVIOUS
  <2>1. t * m = 0
        OBVIOUS
  <2> QED BY <2>1
<1> DEFINE q == t - 1
           r == (i - 1) - (m * q)
<1>2. q \in Nat /\ t = q + 1 /\ i - 1 \in Nat
      OBVIOUS
<1>3. t * m = (m * q) + m /\ (t - 1) * m = m * q /\ m * q \in Nat
  <2>1. \A x \in Nat : (x + 1) * m = (m * x) + m /\ x * m = m * x /\ m * x \in Nat
        OBVIOUS
  <2> HIDE DEF q
  <2>2. t - 1 = q
        BY <1>2
  <2> QED BY <1>2, <2>1, <2>2
<1> HIDE DEF q
<1>4. r \in 0..(m - 1) /\ i - 1 = (m * q) + r
      BY <1>2, <1>3
<1> HIDE DEF r
<1>5. (i - 1) % m = r
      BY <1>1, <1>2, <1>4, RemainderIs
<1> DEFINE k == i - 1
           p == k \div m
<1>6. p \in Nat /\ k = (m * p) + (k % m)
      BY <1>1, <1>2, Remainder
<1>7. m * p = m * q
  <2>1. k % m = r /\ k = (m * q) + r /\ r \in Nat /\ m * q \in Nat
        BY <1>3, <1>4, <1>5
  <2>2. m * p \in Nat
        BY <1>6
  <2> HIDE DEF p, k
  <2> QED BY <1>6, <2>1, <2>2
<1>8. p = q
  <2> HIDE DEF p, k
  <2>1. m * (p - q) = 0
        BY <1>2, <1>6, <1>7
  <2> QED BY <1>1, <1>2, <1>6, <2>1
<1> QED BY <1>1, <1>2, <1>8

\* The tape that has each row of f m times.
LEMMA LaidIs ==
    ASSUME NEW f, InSeries(f), NEW m \in Nat, NEW tape, Laid(tape, f, Stage(f, m, 0))
    PROVE  /\ tape \in Seq(Rows) /\ Len(tape) = Len(f) * m
           /\ \A i \in 1..Len(tape) : /\ ((i - 1) \div m) + 1 \in 1..Len(f)
                                      /\ tape[i] = f[((i - 1) \div m) + 1]
<1> DEFINE b == Stage(f, m, 0)
           n == Len(f)
           l == Len(tape)
<1>1. /\ n \in Nat /\ l \in Nat /\ tape \in Seq(Rows)
      BY LenProperties DEF Laid, InSeries
<1>2. \A t \in 0..n : b[t] = t * m
  <2>1. ASSUME NEW t \in 0..n PROVE (t * m) + (IF t <= 0 THEN t ELSE 0) = t * m
        BY <1>1
  <2> QED BY <2>1 DEF Stage
<1>3. /\ \A t \in 0..n : b[t] \in 0..l
      /\ \A i \in 1..l : tape[i].time \in 1..n /\ tape[i] = f[tape[i].time]
      /\ \A i \in 1..l, t \in 0..n : tape[i].time <= t <=> i <= b[t]
      BY DEF Laid
<1> HIDE DEF b, n, l
<1>4. \A t \in 0..n : t * m \in 0..l
      BY <1>2, <1>3
<1>5. \A i \in 1..l, t \in 0..n : tape[i].time <= t <=> i <= t * m
      BY <1>2, <1>3
<1>6. l = n * m
  <2>1. n * m <= l /\ n * m \in Nat
        BY <1>1, <1>4
  <2>2. l <= n * m
    <3>1. CASE l = 0
          BY <2>1, <3>1
    <3>2. CASE l # 0
      <4>1. l \in 1..l /\ n \in 0..n
            BY <1>1, <3>2
      <4>2. tape[l].time <= n
            BY <1>1, <1>3, <4>1
      <4> QED BY <1>5, <4>1, <4>2
    <3> QED BY <3>1, <3>2
  <2> QED BY <1>1, <2>1, <2>2
<1>7. ASSUME NEW i \in 1..l
      PROVE  ((i - 1) \div m) + 1 \in 1..n /\ tape[i] = f[((i - 1) \div m) + 1]
  <2> DEFINE t == tape[i].time
  <2>1. t \in 1..n /\ tape[i] = f[t]
        BY <1>3
  <2>2. t \in 0..n /\ t - 1 \in 0..n /\ t <= t /\ ~(t <= t - 1)
        BY <1>1, <2>1
  <2>3. i <= t * m /\ ~(i <= (t - 1) * m)
        BY <1>5, <2>2
  <2> HIDE DEF t
  <2>4. t \in Nat \ {0} /\ i \in Nat \ {0}
        BY <1>1, <2>1
  <2>5. ((i - 1) \div m) + 1 = t
        BY <2>3, <2>4, QuotientBetween
  <2> QED BY <2>1, <2>5
<1> QED BY <1>1, <1>6, <1>7 DEF n, l

\* What a server makes of the files it lists: from the file of a contract its tape,
\* each row as often as the file is listed.
LEMMA TapeIs ==
    ASSUME NEW listed, NEW c, NEW f, InSeries(f), \A i \in 1..Len(f) : f[i].path.conid = c,
           ListsOf(listed, c, f)
    PROVE  LET tape == TapeOf(Loaded(listed), c)
               m == Cardinality(Of(listed, c, Len(listed))) IN
           /\ m \in Nat /\ tape \in Seq(Rows) /\ Len(tape) = Len(f) * m
           /\ \A i \in 1..Len(tape) : /\ ((i - 1) \div m) + 1 \in 1..Len(f)
                                      /\ tape[i] = f[((i - 1) \div m) + 1]
<1> DEFINE tape == TapeOf(Loaded(listed), c)
           m == Cardinality(Of(listed, c, Len(listed)))
<1>1. Len(listed) \in Nat
      BY LenProperties DEF ListsOf
<1>2. m \in Nat
      BY <1>1, OfOneMore
<1>3. Laid(tape, f, Stage(f, m, 0))
      BY TapeIsLaid
<1> HIDE DEF tape, m
<1>4. /\ tape \in Seq(Rows) /\ Len(tape) = Len(f) * m
      /\ \A i \in 1..Len(tape) : /\ ((i - 1) \div m) + 1 \in 1..Len(f)
                                 /\ tape[i] = f[((i - 1) \div m) + 1]
      BY <1>2, <1>3, LaidIs
<1> QED BY <1>2, <1>4 DEF tape, m

-------------------------------------------------------------------------------
(* The invariant: what is on the disk, and what the lists name                *)

Untorn(s) == [i \in DOMAIN s |-> [s[i] EXCEPT !.torn = FALSE]]

\* A file is the beginning of a series that one gather has written.
OfOneGather(p) == \E g \in 1..gathers, n \in 0..MaxRows : Untorn(disk[p]) = Series(p, g, n)

\* The files listed are there, and all of the same bar size.
Filed(files, bar) == \A i \in DOMAIN files : files[i].path \in OnDisk /\ files[i].path.bar = bar

ManifestFits == \E bar \in Bars : Filed(manifest.files, bar)

FInv ==
    /\ IsFiniteSet(OnDisk)
    /\ \A p \in OnDisk : OfOneGather(p)
    /\ JobFits
    /\ Filed(job.files, job.bar)
    /\ IsManifest => ManifestFits

LEMMA SuffixIs ==
    ASSUME NEW E, NEW s \in Seq(E), NEW t \in Seq(E)
    PROVE  IsSuffix(s, t) <=>
              Len(s) <= Len(t) /\ \A i \in 1..Len(s) : s[i] = t[(Len(t) - Len(s)) + i]
<1> DEFINE n == Len(s)
           m == Len(t)
           r == Reverse(s)
           v == Reverse(t)
<1>1. n \in Nat /\ m \in Nat
      BY LenProperties
<1>2. r = [i \in 1..n |-> s[(n - i) + 1]] /\ v = [i \in 1..m |-> t[(m - i) + 1]]
      BY DEF Reverse
<1>3. Len(r) = n /\ Len(v) = m
      BY <1>1, <1>2
<1>4. IsSuffix(s, t) <=> n <= m /\ SubSeq(r, 1, n) = SubSeq(v, 1, n)
      BY <1>3 DEF IsSuffix, IsPrefix
<1> HIDE DEF n, m, r, v
<1>5. ASSUME n <= m
      PROVE  /\ SubSeq(r, 1, n) = [i \in 1..n |-> r[i]]
             /\ SubSeq(v, 1, n) = [i \in 1..n |-> v[i]]
  <2>1. ASSUME NEW x PROVE SubSeq(x, 1, n) = [i \in 1..n |-> x[i]]
    <3>1. SubSeq(x, 1, n) = [i \in 1..((1 + n) - 1) |-> x[(i + 1) - 1]]
          BY <1>1
    <3> QED BY <1>1, <3>1
  <2> QED BY <2>1
<1>6. ASSUME n <= m
      PROVE  SubSeq(r, 1, n) = SubSeq(v, 1, n) <=> \A i \in 1..n : r[i] = v[i]
      BY <1>5, <1>6
<1>7. ASSUME n <= m
      PROVE  (\A i \in 1..n : r[i] = v[i]) <=> \A i \in 1..n : s[i] = t[(m - n) + i]
  <2>1. \A i \in 1..n : r[i] = s[(n - i) + 1] /\ v[i] = t[(m - i) + 1]
        BY <1>1, <1>2, <1>7
  <2>2. ASSUME \A i \in 1..n : r[i] = v[i], NEW i \in 1..n
        PROVE  s[i] = t[(m - n) + i]
    <3>1. (n - i) + 1 \in 1..n /\ (n - ((n - i) + 1)) + 1 = i
          /\ (m - ((n - i) + 1)) + 1 = (m - n) + i
          BY <1>1
    <3> QED BY <2>1, <2>2, <3>1
  <2>3. ASSUME \A i \in 1..n : s[i] = t[(m - n) + i], NEW i \in 1..n
        PROVE  r[i] = v[i]
    <3>1. (n - i) + 1 \in 1..n /\ (m - n) + ((n - i) + 1) = (m - i) + 1
          BY <1>1
    <3> QED BY <2>1, <2>3, <3>1
  <2> QED BY <2>2, <2>3
<1> QED BY <1>4, <1>6, <1>7 DEF n, m

LEMMA SuffixSteps ==
    ASSUME NEW E, NEW s \in Seq(E), NEW t \in Seq(E), IsSuffix(s, t), s # <<>>
    PROVE  IsSuffix(Tail(s), t)
<1>1. /\ Len(s) \in Nat \ {0} /\ Len(t) \in Nat
      /\ Tail(s) \in Seq(E) /\ Len(Tail(s)) = Len(s) - 1
      /\ \A i \in 1..Len(Tail(s)) : Tail(s)[i] = s[i + 1]
      BY EmptySeq, LenProperties, HeadTailProperties
<1>2. Len(s) <= Len(t) /\ \A i \in 1..Len(s) : s[i] = t[(Len(t) - Len(s)) + i]
      BY SuffixIs
<1>3. ASSUME NEW i \in 1..Len(Tail(s)) PROVE Tail(s)[i] = t[(Len(t) - Len(Tail(s))) + i]
  <2>1. i + 1 \in 1..Len(s) /\ (Len(t) - Len(s)) + (i + 1) = (Len(t) - (Len(s) - 1)) + i
        BY <1>1
  <2> QED BY <1>1, <1>2, <2>1
<1>4. Len(Tail(s)) <= Len(t)
      BY <1>1, <1>2
<1> QED BY <1>1, <1>3, <1>4, SuffixIs

LEMMA SuffixSelf ==
    ASSUME NEW E, NEW s \in Seq(E)
    PROVE  IsSuffix(s, s)
<1>1. Len(s) \in Nat /\ Len(s) <= Len(s) /\ \A i \in 1..Len(s) : (Len(s) - Len(s)) + i = i
      BY LenProperties
<1>2. \A i \in 1..Len(s) : s[i] = s[(Len(s) - Len(s)) + i]
      BY <1>1
<1> QED BY <1>1, <1>2, SuffixIs

\* A file on the disk is a sequence of rows.
LEMMA OnDiskType ==
    ASSUME DirectoryOK, NEW p \in OnDisk
    PROVE  p \in Paths /\ disk[p] \in Seq(Rows)
BY DEF OnDisk, DirectoryOK

LEMMA SameFiles ==
    ASSUME IInv, FInv, UNCHANGED disk, gathers' \in Nat, gathers <= gathers'
    PROVE  OnDisk' = OnDisk /\ \A p \in OnDisk : OfOneGather(p)'
<1>1. OnDisk' = OnDisk
      BY DEF OnDisk
<1>2. gathers \in Nat
      BY GathersType DEF IInv
<1>3. 1..gathers \subseteq 1..gathers'
      BY <1>2
<1> QED BY <1>1, <1>3 DEF FInv, OfOneGather

\* One file is written.
LEMMA OneFile ==
    ASSUME IInv, FInv, NEW p \in Paths, NEW s \in Seq(Rows), disk' = [disk EXCEPT ![p] = s],
           gathers' = gathers, gathers # 0, NEW n \in 0..MaxRows, Untorn(s) = Series(p, gathers, n)
    PROVE  /\ OnDisk' = OnDisk \cup {p}
           /\ IsFiniteSet(OnDisk')
           /\ \A q \in OnDisk' : OfOneGather(q)'
<1>1. disk \in [Paths -> Seq(Rows) \cup {NoFile}] /\ gathers \in Nat
      BY GathersType DEF IInv, DirectoryOK
<1>2. disk'[p] = s /\ \A q \in Paths : q # p => disk'[q] = disk[q]
      BY <1>1
<1>3. s # NoFile
      BY NoFileAssumption
<1>4. OnDisk' = OnDisk \cup {p}
      BY <1>2, <1>3 DEF OnDisk
<1>5. IsFiniteSet(OnDisk')
  <2>1. IsFiniteSet(OnDisk)
        BY DEF FInv
  <2> QED BY <1>4, <2>1, FS_AddElement
<1>6. ASSUME NEW q \in OnDisk' PROVE OfOneGather(q)'
  <2>1. CASE q = p
    <3>1. gathers \in 1..gathers
          BY <1>1
    <3> QED BY <1>2, <2>1, <3>1 DEF OfOneGather
  <2>2. CASE q # p
    <3>1. q \in OnDisk /\ disk'[q] = disk[q]
          BY <1>2, <1>4, <1>6, <2>2 DEF OnDisk
    <3> QED BY <3>1 DEF FInv, OfOneGather
  <2> QED BY <2>1, <2>2
<1> QED BY <1>4, <1>5, <1>6

\* A manifest that is left alone goes on to fit: no file is taken away.
LEMMA SameManifest ==
    ASSUME FInv, UNCHANGED manifest, OnDisk \subseteq OnDisk', IsManifest'
    PROVE  ManifestFits'
<1>1. IsManifest /\ ManifestFits
      BY DEF IsManifest, FInv
<1>2. PICK bar \in Bars : Filed(manifest.files, bar)
      BY <1>1 DEF ManifestFits
<1>3. Filed(manifest.files, bar)'
      BY <1>2 DEF Filed
<1> QED BY <1>3 DEF ManifestFits

LEMMA UntornRow ==
    ASSUME NEW p, NEW g, NEW i
    PROVE  [Row(p, g, i) EXCEPT !.torn = FALSE] = Row(p, g, i)
<1>1. Row(p, g, i) \in [path : {p}, gather : {g}, time : {i}, torn : {FALSE}]
      BY DEF Row
<1> DEFINE r == Row(p, g, i)
<1> HIDE DEF r
<1>2. [r EXCEPT !.torn = FALSE] = r
  <2>1. r \in [path : {p}, gather : {g}, time : {i}, torn : {FALSE}]
        BY <1>1 DEF r
  <2> QED BY <2>1
<1> QED BY <1>2 DEF r

LEMMA UntornSeries ==
    ASSUME NEW p, NEW g, NEW n \in Nat
    PROVE  Untorn(Series(p, g, n)) = Series(p, g, n)
<1> DEFINE s == Series(p, g, n)
<1>1. DOMAIN s = 1..n /\ \A i \in 1..n : s[i] = Row(p, g, i)
      BY DEF Series, Row
<1>2. s = [i \in 1..n |-> Row(p, g, i)]
      BY DEF Series, Row
<1>3. \A i : [Row(p, g, i) EXCEPT !.torn = FALSE] = Row(p, g, i)
      BY UntornRow
<1> HIDE DEF s
<1>4. \A i \in 1..n : [s[i] EXCEPT !.torn = FALSE] = Row(p, g, i)
      BY <1>1, <1>3
<1>5. Untorn(s) = [i \in 1..n |-> Row(p, g, i)]
      BY <1>1, <1>4 DEF Untorn
<1> QED BY <1>2, <1>5 DEF s

LEMMA GatherKeepsFiles ==
    ASSUME IInv, FInv, NEW selection \in Selections, NEW bar \in Bars, NEW absolute \in BOOLEAN,
           Gather(selection, bar, absolute)
    PROVE  FInv'
<1> DEFINE selected == IF selection = <<>> THEN AllContracts ELSE selection
<1>1. selected \in Seq(Contracts \cup Unknown)
  <2>1. AllContracts \in Seq(Contracts \cup Unknown)
        BY DatasetsAssumption, Contracts \subseteq Contracts \cup Unknown
  <2>2. selection \in Seq(Contracts \cup Unknown)
        BY DatasetsAssumption
  <2> QED BY <2>1, <2>2
<1>2. job' = [Resting EXCEPT !.step = "fetch", !.bar = bar, !.absolute = absolute,
                             !.selected = selected, !.todo = selected]
      BY DEF Gather
<1> HIDE DEF selected
<1>3. /\ job'.step = "fetch" /\ job'.selected = selected /\ job'.todo = selected
      /\ job'.files = <<>>
      BY <1>2 DEF Resting
<1>4. gathers' = gathers + 1 /\ gathers \in Nat /\ UNCHANGED <<disk, manifest>>
      BY GathersType DEF Gather, IInv
<1>5. OnDisk' = OnDisk /\ \A p \in OnDisk : OfOneGather(p)'
      BY <1>4, SameFiles
<1>6. JobFits'
  <2>1. IsSuffix(selected, selected)
        BY <1>1, SuffixSelf
  <2>2. Len(<<>>) = 0 /\ Len(selected) \in Nat
        BY <1>1, LenProperties
  <2>3. (Len(job.files) + Len(job.todo) <= Len(job.selected))'
        BY <1>3, <2>2
  <2> QED BY <1>3, <2>1, <2>3 DEF JobFits
<1>7. Filed(job.files, job.bar)'
      BY <1>3 DEF Filed
<1>8. IsManifest' => ManifestFits'
      BY <1>4, <1>5, SameManifest
<1> QED BY <1>5, <1>6, <1>7, <1>8 DEF FInv

\* What a running job has fits also when it goes on to its next contract.
LEMMA JobGoesOn ==
    ASSUME IInv, FInv, job.step # "idle", job.todo # <<>>, job'.todo = Tail(job.todo),
           job'.selected = job.selected, job'.step = "fetch",
           job'.files \in Seq(Files), Len(job'.files) <= Len(job.files) + 1
    PROVE  JobFits'
<1>1. /\ job.todo \in Seq(Contracts \cup Unknown) /\ job.selected \in Seq(Contracts \cup Unknown)
      /\ job.files \in Seq(Files)
      BY JobFields DEF IInv
<1>2. IsSuffix(job.todo, job.selected) /\ Len(job.files) + Len(job.todo) <= Len(job.selected)
      BY DEF FInv, JobFits
<1>3. IsSuffix(Tail(job.todo), job.selected)
      BY <1>1, <1>2, SuffixSteps
<1> DEFINE a == Len(job.files)
           b == Len(job.todo)
           c == Len(job.selected)
           d == Len(job'.files)
           e == Len(Tail(job.todo))
<1>4. a \in Nat /\ b \in Nat /\ c \in Nat /\ d \in Nat /\ e = b - 1 /\ d <= a + 1 /\ a + b <= c
      BY <1>1, <1>2, LenProperties, HeadTailProperties
<1> HIDE DEF a, b, c, d, e
<1>5. d + e <= c
      BY <1>4
<1>6. Len(job'.files) + Len(job'.todo) <= Len(job'.selected)
      BY <1>5 DEF c, d, e
<1> QED BY <1>3, <1>6 DEF JobFits

LEMMA FetchFailsKeepsFiles ==
    ASSUME IInv, FInv, FetchFails
    PROVE  FInv'
<1>1. /\ job.step = "fetch" /\ job.todo # <<>> /\ UNCHANGED <<disk, manifest, gathers>>
      /\ job' = [job EXCEPT !.errors = Failed(Head(job.todo)), !.todo = Tail(job.todo)]
      BY DEF FetchFails
<1>2. DirectoryOK /\ gathers \in Nat
      BY GathersType DEF IInv
<1>3. /\ job'.step = "fetch" /\ job'.selected = job.selected /\ job'.todo = Tail(job.todo)
      /\ job'.files = job.files /\ job'.bar = job.bar
      BY <1>1, <1>2 DEF DirectoryOK, Jobs
<1>4. OnDisk' = OnDisk /\ \A p \in OnDisk : OfOneGather(p)'
      BY <1>1, <1>2, SameFiles
<1>5. JobFits'
  <2>1. job.files \in Seq(Files) /\ Len(job.files) \in Nat
        BY <1>2, JobFields, LenProperties
  <2>2. Len(job.files) <= Len(job.files) + 1
        BY <2>1
  <2> QED BY <1>1, <1>3, <2>1, <2>2, JobGoesOn
<1>6. Filed(job.files, job.bar)'
      BY <1>3, <1>4 DEF FInv, Filed
<1>7. IsManifest' => ManifestFits'
      BY <1>1, <1>4, SameManifest
<1> QED BY <1>4, <1>5, <1>6, <1>7 DEF FInv

\* A job that writes into its file.
LEMMA WritingKeepsFiles ==
    ASSUME IInv, FInv, job.step \in {"fetch", "write"}, job.todo # <<>>, gathers # 0,
           Current \in Paths, job'.step = "write", job'.selected = job.selected, job'.todo = job.todo,
           job'.files = job.files, job'.bar = job.bar, UNCHANGED <<manifest, gathers>>,
           NEW s \in Seq(Rows), disk' = [disk EXCEPT ![Current] = s],
           NEW n \in 0..MaxRows, Untorn(s) = Series(Current, gathers, n)
    PROVE  FInv'
<1>1. /\ OnDisk' = OnDisk \cup {Current}
      /\ IsFiniteSet(OnDisk') /\ \A q \in OnDisk' : OfOneGather(q)'
      BY OneFile
<1>2. Current' = Current
      BY DEF Current
<1>3. JobFits'
  <2>1. disk'[Current'] # NoFile
        BY <1>1, <1>2 DEF OnDisk
  <2> QED BY <2>1 DEF FInv, JobFits
<1>4. Filed(job.files, job.bar)'
      BY <1>1 DEF FInv, Filed
<1>5. IsManifest' => ManifestFits'
      BY <1>1, SameManifest
<1> QED BY <1>1, <1>3, <1>4, <1>5 DEF FInv

LEMMA OpenFileKeepsFiles ==
    ASSUME IInv, FInv, OpenFile
    PROVE  FInv'
<1>1. /\ job.step = "fetch" /\ job.todo # <<>> /\ Head(job.todo) \in Contracts
      /\ UNCHANGED <<manifest, gathers>> /\ disk' = [disk EXCEPT ![Current] = <<>>]
      BY DEF OpenFile, Opened
<1>2. PICK n \in 0..MaxRows :
          job' = [job EXCEPT !.step = "write", !.left = Series(Current, gathers, n)]
      BY DEF OpenFile
<1>3. DirectoryOK /\ JobTold
      BY <1>1 DEF IInv
<1>4. Current \in Paths /\ gathers # 0
      BY <1>1, <1>3, CurrentType DEF JobTold
<1>5. /\ job'.step = "write" /\ job'.selected = job.selected /\ job'.todo = job.todo
      /\ job'.files = job.files /\ job'.bar = job.bar
      BY <1>2, <1>3 DEF DirectoryOK, Jobs
<1>6. <<>> \in Seq(Rows) /\ 0 \in 0..MaxRows /\ Untorn(<<>>) = Series(Current, gathers, 0)
  <2>1. Untorn(<<>>) = <<>>
        BY DEF Untorn
  <2>2. Series(Current, gathers, 0) = <<>>
        BY DEF Series
  <2> QED BY <2>1, <2>2, DatasetsAssumption
<1> QED BY <1>1, <1>4, <1>5, <1>6, WritingKeepsFiles

\* What a row more makes of the open file.
LEMMA OpenFileGrows ==
    ASSUME IInv, job.step = "write", job.left # <<>>
    PROVE  /\ Current \in Paths /\ gathers \in 1..MaxGathers /\ job.todo # <<>>
           /\ \E k \in 0..MaxRows :
                 /\ disk[Current] = Series(Current, gathers, k) /\ k + 1 \in 0..MaxRows
                 /\ Head(job.left) = Row(Current, gathers, k + 1)
                 /\ Append(disk[Current], Head(job.left)) = Series(Current, gathers, k + 1)
<1>1. /\ DirectoryOK /\ JobTold /\ job.todo # <<>> /\ Current \in Paths
      /\ gathers \in 1..MaxGathers
      BY OpenFileFields
<1>2. PICK n, k \in 0..MaxRows :
          /\ k <= n
          /\ disk[Current] = Series(Current, gathers, k)
          /\ job.left = After(Current, gathers, k, n)
      BY OpenFileFields
<1>3. n \in Nat /\ k \in 0..n /\ MaxRows \in Nat
      BY <1>2, DatasetsAssumption
<1>4. k + 1 \in 0..n /\ Append(disk[Current], Head(job.left)) = Series(Current, gathers, k + 1)
      BY <1>1, <1>2, <1>3, WriteOne
<1>5. Head(job.left) = Row(Current, gathers, k + 1)
  <2>1. job.left \in Seq(Rows) /\ Len(job.left) = n - k
        BY <1>1, <1>2, <1>3, AfterType
  <2>2. 1 \in 1..(n - k)
        BY <1>3, <1>4
  <2>3. job.left[1] = Row(Current, gathers, k + 1)
        BY <1>2, <1>3, <2>2 DEF After
  <2> QED BY <2>1, <2>3
<1>6. k + 1 \in 0..MaxRows
      BY <1>3, <1>4
<1> QED BY <1>1, <1>2, <1>4, <1>5, <1>6

LEMMA WriteRowKeepsFiles ==
    ASSUME IInv, FInv, WriteRow
    PROVE  FInv'
<1>1. /\ job.step = "write" /\ job.left # <<>> /\ UNCHANGED <<manifest, gathers>>
      /\ disk' = [disk EXCEPT ![Current] = Append(disk[Current], Head(job.left))]
      /\ job' = [job EXCEPT !.left = Tail(job.left)]
      BY DEF WriteRow
<1>2. DirectoryOK /\ Current \in Paths /\ gathers \in 1..MaxGathers /\ job.todo # <<>>
      BY <1>1, OpenFileGrows DEF IInv
<1>3. PICK k \in 0..MaxRows :
         /\ k + 1 \in 0..MaxRows
         /\ Append(disk[Current], Head(job.left)) = Series(Current, gathers, k + 1)
      BY <1>1, OpenFileGrows
<1>4. /\ job'.step = "write" /\ job'.selected = job.selected /\ job'.todo = job.todo
      /\ job'.files = job.files /\ job'.bar = job.bar
      BY <1>1, <1>2 DEF DirectoryOK, Jobs
<1> DEFINE s == Series(Current, gathers, k + 1)
<1>5. s \in Seq(Rows) /\ Untorn(s) = s /\ gathers # 0
      BY <1>2, <1>3, SeriesType, UntornSeries
<1>6. disk' = [disk EXCEPT ![Current] = s]
      BY <1>1, <1>3
<1> HIDE DEF s
<1>7. Untorn(s) = Series(Current, gathers, k + 1)
      BY <1>5 DEF s
<1> QED BY <1>1, <1>2, <1>3, <1>4, <1>5, <1>6, <1>7, WritingKeepsFiles

LEMMA CloseFileKeepsFiles ==
    ASSUME IInv, FInv, CloseFile
    PROVE  FInv'
<1> DEFINE file == [path |-> Current, bars |-> Len(disk[Current])]
           files == Append(job.files, file)
<1>1. /\ job.step = "write" /\ job.left = <<>> /\ UNCHANGED <<disk, manifest, gathers>>
      /\ job' = [job EXCEPT !.step = "fetch", !.todo = Tail(job.todo), !.files = files]
      BY DEF CloseFile, Rest
<1>2. /\ DirectoryOK /\ job.todo # <<>> /\ Current \in Paths /\ gathers \in Nat
      BY <1>1, OpenFileFields, GathersType
<1>3. /\ job'.step = "fetch" /\ job'.selected = job.selected /\ job'.todo = Tail(job.todo)
      /\ job'.files = files /\ job'.bar = job.bar
  <2> HIDE DEF files
  <2> QED BY <1>1, <1>2 DEF DirectoryOK, Jobs
<1>4. OnDisk' = OnDisk /\ \A p \in OnDisk : OfOneGather(p)'
      BY <1>1, <1>2, SameFiles
<1>5. job.files \in Seq(Files) /\ file.path = Current
      BY <1>2, JobFields
<1>6. Len(job.files) \in Nat /\ DOMAIN job.files = 1..Len(job.files)
      BY <1>5, LenProperties
<1>7. files \in Seq(Files)
  <2>1. IInv'
        BY CloseFileKeeps
  <2>2. DirectoryOK'
        BY <2>1 DEF IInv
  <2>3. job'.files \in Seq(Files)
        BY <2>2 DEF DirectoryOK, Jobs
  <2> QED BY <1>3, <2>3
<1> HIDE DEF file
<1>8. /\ Len(files) = Len(job.files) + 1 /\ files[Len(job.files) + 1] = file
      /\ \A i \in 1..Len(job.files) : files[i] = job.files[i]
      BY <1>5
<1> HIDE DEF files
<1>9. JobFits'
  <2>1. Len(files) <= Len(job.files) + 1
        BY <1>6, <1>8
  <2> QED BY <1>1, <1>2, <1>3, <1>7, <2>1, JobGoesOn
<1>10. Filed(job.files, job.bar)'
  <2>1. Current \in OnDisk /\ Current.bar = job.bar
        BY <1>1, <1>2 DEF FInv, JobFits, OnDisk, Current, Path
  <2>2. ASSUME NEW i \in 1..(Len(job.files) + 1)
        PROVE  files[i].path \in OnDisk /\ files[i].path.bar = job.bar
    <3>1. CASE i = Len(job.files) + 1
          BY <1>5, <1>8, <2>1, <3>1
    <3>2. CASE i \in 1..Len(job.files)
          BY <1>6, <1>8, <3>2 DEF FInv, Filed
    <3> QED BY <1>6, <3>1, <3>2
  <2>3. DOMAIN files = 1..(Len(job.files) + 1)
        BY <1>7, <1>8, LenProperties
  <2> QED BY <1>3, <1>4, <2>2, <2>3 DEF Filed
<1>11. IsManifest' => ManifestFits'
       BY <1>1, <1>4, SameManifest
<1> QED BY <1>4, <1>9, <1>10, <1>11 DEF FInv

LEMMA OpenManifestKeepsFiles ==
    ASSUME IInv, FInv, OpenManifest
    PROVE  FInv'
<1>1. /\ job.step = "fetch" /\ manifest' = TornManifest
      /\ job' = [job EXCEPT !.step = "manifest"] /\ UNCHANGED <<disk, gathers>>
      BY DEF OpenManifest
<1>2. DirectoryOK /\ gathers \in Nat
      BY GathersType DEF IInv
<1>3. /\ job'.step = "manifest" /\ job'.selected = job.selected /\ job'.todo = job.todo
      /\ job'.files = job.files /\ job'.bar = job.bar
      BY <1>1, <1>2 DEF DirectoryOK, Jobs
<1>4. OnDisk' = OnDisk /\ \A p \in OnDisk : OfOneGather(p)'
      BY <1>1, <1>2, SameFiles
<1>5. JobFits'
      BY <1>1, <1>3 DEF FInv, JobFits
<1>6. Filed(job.files, job.bar)'
      BY <1>3, <1>4 DEF FInv, Filed
<1> QED BY <1>1, <1>4, <1>5, <1>6 DEF FInv, IsManifest

LEMMA CloseManifestKeepsFiles ==
    ASSUME IInv, FInv, CloseManifest
    PROVE  FInv'
<1>1. /\ job.step = "manifest" /\ UNCHANGED <<disk, gathers>>
      /\ manifest' = [gather |-> gathers, files |-> job.files, errors |-> job.errors,
                      absolute |-> job.absolute]
      /\ job' = [job EXCEPT !.step = "idle"]
      BY DEF CloseManifest
<1>2. DirectoryOK /\ gathers \in Nat
      BY GathersType DEF IInv
<1>3. /\ job'.step = "idle" /\ job'.selected = job.selected /\ job'.todo = job.todo
      /\ job'.files = job.files /\ job'.bar = job.bar
      BY <1>1, <1>2 DEF DirectoryOK, Jobs
<1>4. OnDisk' = OnDisk /\ \A p \in OnDisk : OfOneGather(p)'
      BY <1>1, <1>2, SameFiles
<1>5. JobFits'
      BY <1>3 DEF FInv, JobFits
<1>6. Filed(job.files, job.bar)'
      BY <1>3, <1>4 DEF FInv, Filed
<1>7. ManifestFits'
  <2>1. manifest'.files = job.files
        BY <1>1
  <2>2. job.bar \in Bars
        BY <1>2, JobFields
  <2>3. Filed(job.files, job.bar)
        BY DEF FInv
  <2>4. \A i \in DOMAIN manifest'.files :
           manifest'.files[i].path \in OnDisk' /\ manifest'.files[i].path.bar = job.bar
        BY <1>4, <2>1, <2>3 DEF Filed
  <2> QED BY <2>2, <2>4 DEF ManifestFits, Filed
<1> QED BY <1>4, <1>5, <1>6, <1>7 DEF FInv

LEMMA CollectorCrashesKeepsFiles ==
    ASSUME IInv, FInv, CollectorCrashes
    PROVE  FInv'
<1>1. job.step # "idle" /\ job' = Resting /\ UNCHANGED <<manifest, gathers>>
      BY DEF CollectorCrashes
<1>2. DirectoryOK /\ gathers \in Nat
      BY GathersType DEF IInv
<1>3. /\ OnDisk \subseteq OnDisk' /\ IsFiniteSet(OnDisk')
      /\ \A q \in OnDisk' : OfOneGather(q)'
  <2>1. CASE UNCHANGED disk
        BY <1>1, <1>2, <2>1, SameFiles DEF FInv
  <2>2. CASE /\ job.step = "write" /\ job.left # <<>>
             /\ disk' = [disk EXCEPT ![Current] =
                            Append(disk[Current], [Head(job.left) EXCEPT !.torn = TRUE])]
    <3>1. Current \in Paths /\ gathers \in 1..MaxGathers
          BY <2>2, OpenFileGrows
    <3>2. PICK k \in 0..MaxRows :
             /\ disk[Current] = Series(Current, gathers, k) /\ k + 1 \in 0..MaxRows
             /\ Head(job.left) = Row(Current, gathers, k + 1)
          BY <2>2, OpenFileGrows
    <3> DEFINE half == [Head(job.left) EXCEPT !.torn = TRUE]
               old == disk[Current]
               s == Append(old, half)
    <3>3. k \in Nat /\ k + 1 \in Nat /\ k + 1 \in 1..MaxRows
          BY <3>2, DatasetsAssumption
    <3>4. half \in Rows /\ [half EXCEPT !.torn = FALSE] = Row(Current, gathers, k + 1)
      <4>1. Row(Current, gathers, k + 1) \in Rows
            BY <3>1, <3>3, RowType
      <4> QED BY <3>2, <4>1 DEF Row, Rows
    <3>5. old \in Seq(Rows) /\ Len(old) = k /\ \A i \in 1..k : old[i] = Row(Current, gathers, i)
      <4>1. \A i \in 1..k : old[i] = Row(Current, gathers, i)
            BY <3>2 DEF Series, Row
      <4> QED BY <3>1, <3>2, <4>1, SeriesType
    <3>6. disk' = [disk EXCEPT ![Current] = s]
          BY <2>2
    <3> HIDE DEF half, old
    <3>7. /\ s \in Seq(Rows) /\ DOMAIN s = 1..(k + 1) /\ s[k + 1] = half
          /\ \A i \in 1..k : s[i] = old[i]
          BY <3>3, <3>4, <3>5
    <3> HIDE DEF s
    <3>8. Untorn(s) = Series(Current, gathers, k + 1)
      <4>1. \A i : [Row(Current, gathers, i) EXCEPT !.torn = FALSE] = Row(Current, gathers, i)
            BY UntornRow
      <4>2. ASSUME NEW i \in 1..(k + 1)
            PROVE  [s[i] EXCEPT !.torn = FALSE] = Row(Current, gathers, i)
        <5>1. CASE i = k + 1
              BY <3>4, <3>7, <5>1
        <5>2. CASE i \in 1..k
              BY <3>5, <3>7, <4>1, <5>2
        <5> QED BY <3>3, <5>1, <5>2
      <4>3. Untorn(s) = [i \in 1..(k + 1) |-> Row(Current, gathers, i)]
            BY <3>7, <4>2 DEF Untorn
      <4> QED BY <4>3 DEF Series, Row
    <3>9. gathers # 0
          BY <3>1
    <3> QED BY <1>1, <3>1, <3>2, <3>6, <3>7, <3>8, <3>9, OneFile
  <2> QED BY <2>1, <2>2 DEF CollectorCrashes
<1>4. job'.step = "idle" /\ job'.files = <<>> /\ job'.todo = <<>> /\ job'.selected = <<>>
      BY <1>1 DEF Resting
<1>5. JobFits'
  <2>1. Len(<<>>) + Len(<<>>) <= Len(<<>>)
        OBVIOUS
  <2>2. (Len(job.files) + Len(job.todo) <= Len(job.selected))'
        BY <1>4, <2>1
  <2> QED BY <1>4, <2>2 DEF JobFits
<1>6. Filed(job.files, job.bar)'
      BY <1>4 DEF Filed
<1>7. IsManifest' => ManifestFits'
      BY <1>1, <1>3, SameManifest
<1> QED BY <1>3, <1>5, <1>6, <1>7 DEF FInv

-------------------------------------------------------------------------------
(* What a server reads                                                       *)

LEMMA FileIsInSeries ==
    ASSUME IInv, NEW p \in OnDisk, NEW g, NEW n \in 0..MaxRows, Untorn(disk[p]) = Series(p, g, n)
    PROVE  /\ InSeries(disk[p]) /\ Len(disk[p]) = n
           /\ \A i \in 1..Len(disk[p]) : disk[p][i].path = p
<1> DEFINE s == disk[p]
<1>1. s \in Seq(Rows) /\ n \in Nat
      BY OnDiskType, DatasetsAssumption DEF IInv
<1> HIDE DEF s
<1>2. Len(s) \in Nat /\ DOMAIN s = 1..Len(s) /\ \A i \in 1..Len(s) : s[i] \in Rows
      BY <1>1, LenProperties, ElementOfSeq
<1>3. Untorn(s) = Series(p, g, n)
      BY DEF s
<1>4. DOMAIN Untorn(s) = 1..Len(s) /\ DOMAIN Series(p, g, n) = 1..n
      BY <1>2 DEF Untorn, Series
<1>5. Len(s) = n
  <2>1. 1..Len(s) = 1..n
        BY <1>3, <1>4
  <2> QED BY <1>1, <1>2, <2>1, SizeOfFirst
<1>6. ASSUME NEW i \in 1..Len(s) PROVE s[i].time = i /\ s[i].path = p
  <2>1. s[i] \in Rows
        BY <1>2
  <2>2. Untorn(s)[i] = [s[i] EXCEPT !.torn = FALSE]
        BY <1>2 DEF Untorn
  <2>3. Series(p, g, n)[i] = Row(p, g, i)
        BY <1>5 DEF Series, Row
  <2>4. [s[i] EXCEPT !.torn = FALSE] = Row(p, g, i)
        BY <1>3, <2>2, <2>3
  <2>5. \A r \in Rows : /\ [r EXCEPT !.torn = FALSE].time = r.time
                        /\ [r EXCEPT !.torn = FALSE].path = r.path
        BY DEF Rows
  <2>6. Row(p, g, i).time = i /\ Row(p, g, i).path = p
        BY DEF Row
  <2> QED BY <2>1, <2>4, <2>5, <2>6
<1> QED BY <1>1, <1>5, <1>6 DEF InSeries, s

\* All there are, in any order.
LEMMA SetToSeqType ==
    ASSUME NEW S, IsFiniteSet(S)
    PROVE  SetToSeq(S) \in Seq(S)
<1>1. Cardinality(S) \in Nat /\ ExistsBijection(1..Cardinality(S), S)
      BY FS_CardinalityType
<1>2. PICK f \in Bijection(1..Cardinality(S), S) : TRUE
      BY <1>1 DEF ExistsBijection
<1>3. f \in [1..Cardinality(S) -> S] /\ IsInjective(f)
      BY <1>2 DEF Bijection, Injection, IsInjective
<1>4. SetToSeq(S) \in [1..Cardinality(S) -> S]
      BY <1>3 DEF SetToSeq
<1> QED BY <1>1, <1>4

LEMMA ListedType ==
    ASSUME IInv, FInv, NEW reaches
    PROVE  Listed(reaches) \in Seq(OnDisk)
<1>1. CASE ~IsManifest
  <2>1. Listed(reaches) = SetToSeq(OnDisk)
        BY <1>1 DEF Listed
  <2> QED BY <2>1, SetToSeqType DEF FInv
<1>2. CASE IsManifest
  <2>1. manifest.files \in Seq(Files)
        BY <1>2, ManifestFields DEF IInv, Manifests
  <2>2. Len(manifest.files) \in Nat /\ DOMAIN manifest.files = 1..Len(manifest.files)
        BY <2>1, LenProperties
  <2>3. \A i \in 1..Len(manifest.files) : manifest.files[i].path \in OnDisk
        BY <1>2, <2>2 DEF FInv, ManifestFits, Filed
  <2>4. [i \in DOMAIN manifest.files |-> manifest.files[i].path] \in Seq(OnDisk)
        BY <2>2, <2>3
  <2>5. <<>> \in Seq(OnDisk)
        OBVIOUS
  <2> QED BY <1>2, <2>4, <2>5 DEF Listed
<1> QED BY <1>1, <1>2

LEMMA ListedFiles ==
    ASSUME IInv, FInv, NEW listed \in Seq(OnDisk)
    PROVE  /\ listed \in Seq(Paths) /\ Len(listed) \in Nat /\ DOMAIN listed = 1..Len(listed)
           /\ \A i \in 1..Len(listed) :
                 /\ listed[i] \in OnDisk /\ InSeries(disk[listed[i]])
                 /\ \A j \in 1..Len(disk[listed[i]]) : disk[listed[i]][j].path = listed[i]
<1>1. OnDisk \subseteq Paths
      BY DEF OnDisk
<1>2. /\ listed \in Seq(Paths) /\ Len(listed) \in Nat /\ DOMAIN listed = 1..Len(listed)
      /\ \A i \in 1..Len(listed) : listed[i] \in OnDisk
      BY <1>1, SeqMonotonic, LenProperties, ElementOfSeq
<1>3. ASSUME NEW p \in OnDisk
      PROVE  InSeries(disk[p]) /\ \A j \in 1..Len(disk[p]) : disk[p][j].path = p
  <2>1. PICK g \in 1..gathers, n \in 0..MaxRows : Untorn(disk[p]) = Series(p, g, n)
        BY DEF FInv, OfOneGather
  <2> QED BY <2>1, FileIsInSeries
<1> QED BY <1>2, <1>3

LEMMA LoadedType ==
    ASSUME IInv, FInv, NEW listed \in Seq(OnDisk)
    PROVE  Loaded(listed) \in Seq(Rows)
<1> DEFINE seqs == [i \in DOMAIN listed |-> disk[listed[i]]]
<1>1. /\ Len(listed) \in Nat /\ DOMAIN listed = 1..Len(listed)
      /\ \A i \in 1..Len(listed) : disk[listed[i]] \in Seq(Rows)
      BY ListedFiles DEF InSeries
<1>2. seqs \in Seq(Seq(Rows))
  <2>1. seqs = [i \in 1..Len(listed) |-> disk[listed[i]]]
        BY <1>1
  <2> QED BY <1>1, <2>1
<1>3. Loaded(listed) = FlattenSeq(seqs)
      BY DEF Loaded
<1> HIDE DEF seqs
<1> QED BY <1>2, <1>3, FlattenJoins

LEMMA TapeType ==
    ASSUME IInv, FInv, NEW listed \in Seq(OnDisk)
    PROVE  [c \in Contracts |-> TapeOf(Loaded(listed), c)] \in [Contracts -> Seq(Rows)]
<1>1. Loaded(listed) \in Seq(Rows)
      BY LoadedType
<1>2. \A c \in Contracts : TapeOf(Loaded(listed), c) \in Seq(Rows)
      BY <1>1, TapeSteps
<1> QED BY <1>2

\* Without a file of the contract there is nothing on its tape.
LEMMA NothingOnTape ==
    ASSUME IInv, FInv, NEW listed \in Seq(OnDisk), NEW c,
           \A i \in 1..Len(listed) : listed[i].conid # c
    PROVE  TapeOf(Loaded(listed), c) = <<>>
<1> DEFINE f == <<>>
           tape == TapeOf(Loaded(listed), c)
           m == Cardinality(Of(listed, c, Len(listed)))
<1>1. f \in Seq(Rows) /\ Len(f) = 0
      OBVIOUS
<1>2. InSeries(f) /\ \A i \in 1..Len(f) : f[i].path.conid = c
      BY <1>1 DEF InSeries
<1> HIDE DEF f
<1>3. ListsOf(listed, c, f)
      BY ListedFiles DEF ListsOf
<1>4. m \in Nat /\ tape \in Seq(Rows) /\ Len(tape) = Len(f) * m
      BY <1>2, <1>3, TapeIs
<1> HIDE DEF tape, m
<1>5. Len(tape) = 0
      BY <1>1, <1>4
<1>6. tape = <<>>
      BY <1>4, <1>5, EmptySeq
<1> QED BY <1>6 DEF tape

\* A file listed once is the tape of its contract.
LEMMA OneFileIsTape ==
    ASSUME IInv, FInv, NEW listed \in Seq(OnDisk), NEW k \in 1..Len(listed),
           \A i \in 1..Len(listed) : listed[i].conid = listed[k].conid => i = k
    PROVE  TapeOf(Loaded(listed), listed[k].conid) = disk[listed[k]]
<1> DEFINE p == listed[k]
           c == p.conid
           f == disk[p]
           tape == TapeOf(Loaded(listed), c)
           m == Cardinality(Of(listed, c, Len(listed)))
<1>1. /\ listed \in Seq(Paths) /\ p \in OnDisk /\ InSeries(f) /\ Len(listed) \in Nat
      /\ \A i \in 1..Len(f) : f[i].path = p
      BY ListedFiles
<1>2. \A i \in 1..Len(f) : f[i].path.conid = c
      BY <1>1
<1>3. ListsOf(listed, c, f)
      BY ListedFiles DEF ListsOf
<1>4. Of(listed, c, Len(listed)) = {k}
      BY DEF Of
<1>5. m = 1
      BY <1>4, FS_Singleton
<1> HIDE DEF c, f
<1>6. /\ m \in Nat /\ tape \in Seq(Rows) /\ Len(tape) = Len(f) * m
      /\ \A i \in 1..Len(tape) : /\ ((i - 1) \div m) + 1 \in 1..Len(f)
                                 /\ tape[i] = f[((i - 1) \div m) + 1]
      BY <1>1, <1>2, <1>3, TapeIs
<1>7. Len(f) \in Nat /\ f \in Seq(Rows)
      BY <1>1, LenProperties DEF InSeries
<1> HIDE DEF m, tape
<1>8. Len(tape) = Len(f)
      BY <1>5, <1>6, <1>7
<1>9. ASSUME NEW i \in 1..Len(tape) PROVE tape[i] = f[i]
  <2>1. ((i - 1) \div 1) + 1 = i
        BY <1>7, <1>8
  <2> QED BY <1>5, <1>6, <2>1
<1>10. tape = f
       BY <1>6, <1>7, <1>8, <1>9, SeqEqual
<1> QED BY <1>10 DEF tape, f, c

-------------------------------------------------------------------------------
(* The server                                                                *)

\* A server on the manifest of the latest gather, and what it has read there.
Latest ==
    /\ job.step = "idle" /\ IsManifest /\ manifest.gather = gathers
    /\ server.listed = [i \in DOMAIN manifest.files |-> manifest.files[i].path]
    /\ server.tape = [c \in Contracts |-> TapeOf(Loaded(server.listed), c)]

SInv ==
    /\ server \in Servers
    /\ TapesAreUnmixed
    /\ server.status = "up" => /\ gathers # 0 /\ server.gather <= gathers
                               /\ server.gather = gathers => Latest

\* While the server is left alone, what is true of its tapes stays true.
LEMMA UnmixedStays ==
    ASSUME TapesAreUnmixed, UNCHANGED server, gathers \in Nat, gathers' \in Nat, gathers <= gathers'
    PROVE  TapesAreUnmixed'
<1>1. 1..gathers \subseteq 1..gathers'
      OBVIOUS
<1> QED BY <1>1 DEF TapesAreUnmixed, Replays

LEMMA DownType ==
    ASSUME NEW status \in {"down", "failed"}
    PROVE  Down(status) \in Servers /\ Down(status).status # "up"
<1>1. <<>> \in Seq(Paths) /\ <<>> \in Seq(Rows) /\ 0 \in 0..MaxGathers
      BY DatasetsAssumption
<1> QED BY <1>1 DEF Down, Servers

LEMMA GoesDown ==
    ASSUME NEW status \in {"down", "failed"}, server' = Down(status)
    PROVE  SInv'
<1>1. server' \in Servers /\ server'.status # "up"
      BY DownType
<1> QED BY <1>1 DEF SInv, TapesAreUnmixed

LEMMA StartKeepsServer ==
    ASSUME IInv, FInv, NEW reaches \in BOOLEAN, StartServer(reaches)
    PROVE  SInv'
<1> DEFINE listed == Listed(reaches)
           tape == [c \in Contracts |-> TapeOf(Loaded(listed), c)]
           gather == IF IsManifest THEN manifest.gather ELSE 0
<1>1. /\ Readable /\ Loaded(listed) # <<>> /\ UNCHANGED <<disk, manifest, gathers, job>>
      /\ server' = [status |-> "up", listed |-> listed, gather |-> gather, tape |-> tape]
      BY DEF StartServer
<1>2. listed \in Seq(OnDisk)
      BY ListedType
<1>3. tape \in [Contracts -> Seq(Rows)]
      BY <1>2, TapeType
<1>4. gathers \in Nat /\ gathers # 0 /\ gathers <= MaxGathers /\ MaxGathers \in Nat
      BY <1>1, GathersType DEF IInv, Readable
<1>5. gather \in 0..gathers
      BY <1>4, ManifestFields DEF IInv, ManifestTold
<1>6. listed \in Seq(Paths) /\ Len(listed) \in Nat /\ DOMAIN listed = 1..Len(listed)
      BY <1>2, ListedFiles
<1>7. gather = gathers => /\ job.step = "idle" /\ IsManifest /\ manifest.gather = gathers
                          /\ listed = [i \in DOMAIN manifest.files |-> manifest.files[i].path]
  <2> SUFFICES ASSUME gather = gathers
               PROVE  /\ job.step = "idle" /\ IsManifest /\ manifest.gather = gathers
                      /\ listed = [i \in DOMAIN manifest.files |-> manifest.files[i].path]
      OBVIOUS
  <2>1. IsManifest /\ manifest.gather = gathers
        BY <1>4
  <2>2. job.step = "idle"
        BY <2>1 DEF IInv, ManifestTold
  <2>3. Loaded(<<>>) = <<>>
        BY DEF Loaded, FlattenSeq
  <2>4. listed # <<>>
    <3> HIDE DEF listed
    <3> QED BY <1>1, <2>3
  <2> QED BY <2>1, <2>2, <2>4 DEF Listed
<1> HIDE DEF listed, gather
<1>8. server' \in Servers
      BY <1>1, <1>3, <1>4, <1>5, <1>6 DEF Servers
<1>9. TapesAreUnmixed'
  <2> SUFFICES ASSUME IsInjective([i \in DOMAIN listed |-> listed[i].conid]),
                      NEW c \in Contracts, tape[c] # <<>>
               PROVE  \E bar \in Bars, g \in 1..gathers, n \in 1..MaxRows :
                         Untorn(tape[c]) = Series(Path(c, bar), g, n)
      BY <1>1 DEF TapesAreUnmixed, Replays, Untorn
  <2>1. tape[c] = TapeOf(Loaded(listed), c)
        OBVIOUS
  <2>2. PICK k \in 1..Len(listed) : listed[k].conid = c
        BY <1>2, <2>1, NothingOnTape
  <2>3. \A i \in 1..Len(listed) : listed[i].conid = listed[k].conid => i = k
        BY <1>6 DEF IsInjective
  <2> DEFINE p == listed[k]
  <2>4. tape[c] = disk[p]
        BY <1>2, <2>1, <2>2, <2>3, OneFileIsTape
  <2>5. p \in OnDisk /\ p \in Paths
        BY <1>2, ElementOfSeq, OnDiskType DEF IInv
  <2> HIDE DEF p, tape
  <2>6. PICK g \in 1..gathers, n \in 0..MaxRows : Untorn(disk[p]) = Series(p, g, n)
        BY <2>5 DEF FInv, OfOneGather
  <2>7. Len(disk[p]) = n /\ disk[p] \in Seq(Rows)
        BY <2>5, <2>6, FileIsInSeries DEF InSeries
  <2>8. n \in 1..MaxRows
    <3>1. n # 0
          BY <2>4, <2>7, EmptySeq
    <3> QED BY <3>1, DatasetsAssumption
  <2>9. p = Path(c, p.bar) /\ p.bar \in Bars
    <3>1. p.conid = c
          BY <2>2 DEF p
    <3> QED BY <2>5, <3>1 DEF Paths, Path
  <2> QED BY <2>4, <2>6, <2>8, <2>9
<1>10. server'.gather = gathers' => Latest'
  <2> SUFFICES ASSUME gather = gathers PROVE Latest'
      BY <1>1
  <2>1. Loaded(listed)' = Loaded(listed') /\ listed' = listed /\ IsManifest' = IsManifest
        BY <1>1 DEF Loaded, listed, Listed, IsManifest, OnDisk
  <2>2. server'.listed = listed /\ server'.tape = tape
        BY <1>1
  <2>3. Loaded(server.listed)' = Loaded(listed)
        BY <1>1, <2>2 DEF Loaded
  <2> HIDE DEF tape
  <2>4. tape = [c \in Contracts |-> TapeOf(Loaded(listed), c)]
        BY DEF tape
  <2> QED BY <1>1, <1>7, <2>1, <2>2, <2>3, <2>4 DEF Latest
<1>11. server'.gather <= gathers' /\ gathers' # 0
       BY <1>1, <1>4, <1>5
<1> QED BY <1>8, <1>9, <1>10, <1>11 DEF SInv

LEMMA GatherKeepsServer ==
    ASSUME IInv, SInv, UNCHANGED server, gathers' = gathers + 1
    PROVE  SInv'
<1>1. gathers \in Nat /\ gathers' \in Nat /\ gathers <= gathers'
      BY GathersType DEF IInv
<1>2. TapesAreUnmixed'
      BY <1>1, UnmixedStays DEF SInv
<1>3. ASSUME server.status = "up"
      PROVE  gathers' # 0 /\ server.gather <= gathers' /\ server.gather # gathers'
  <2>1. server.gather <= gathers /\ server.gather \in Nat
        BY <1>3, DatasetsAssumption DEF SInv, Servers
  <2> QED BY <1>1, <2>1
<1> QED BY <1>2, <1>3 DEF SInv

\* No step of a running gather touches a server on the latest one: there is none.
LEMMA CollectorKeepsServer ==
    ASSUME IInv, SInv, job.step # "idle", UNCHANGED <<server, gathers>>
    PROVE  SInv'
<1>1. gathers \in Nat
      BY GathersType DEF IInv
<1>2. TapesAreUnmixed'
      BY <1>1, UnmixedStays DEF SInv
<1>3. server.status = "up" => server.gather # gathers
      BY DEF SInv, Latest
<1> QED BY <1>2, <1>3 DEF SInv

LEMMA UnchangedKeepsServer ==
    ASSUME IInv, SInv, UNCHANGED vars
    PROVE  SInv'
<1>1. gathers \in Nat /\ UNCHANGED <<disk, manifest, gathers, job, server>>
      BY GathersType DEF IInv, vars
<1>2. TapesAreUnmixed'
      BY <1>1, UnmixedStays DEF SInv
<1>3. Latest => Latest'
      BY <1>1 DEF Latest, IsManifest, Loaded
<1> QED BY <1>1, <1>2, <1>3 DEF SInv

LEMMA InitHoldsAll == Init => IInv /\ FInv /\ SInv
<1> SUFFICES ASSUME Init PROVE FInv /\ SInv
    BY InitHolds
<1>1. /\ disk = [p \in Paths |-> NoFile] /\ manifest = NoManifest /\ job = Resting
      /\ server = Down("down")
      BY DEF Init
<1>2. OnDisk = {}
      BY <1>1 DEF OnDisk
<1>3. IsFiniteSet(OnDisk)
      BY <1>2, FS_EmptySet
<1>4. /\ job.step = "idle" /\ job.files = <<>> /\ job.todo = <<>> /\ job.selected = <<>>
      /\ ~IsManifest
      BY <1>1 DEF Resting, IsManifest
<1>5. JobFits /\ Filed(job.files, job.bar)
  <2>1. Len(<<>>) + Len(<<>>) <= Len(<<>>)
        OBVIOUS
  <2>2. Len(job.files) + Len(job.todo) <= Len(job.selected)
        BY <1>4, <2>1
  <2> QED BY <1>4, <2>2 DEF JobFits, Filed
<1>6. FInv
      BY <1>2, <1>3, <1>4, <1>5 DEF FInv
<1>7. server \in Servers /\ server.status # "up"
      BY <1>1, DownType
<1>8. SInv
      BY <1>7 DEF SInv, TapesAreUnmixed
<1> QED BY <1>6, <1>8

LEMMA NextKeepsAll == IInv /\ FInv /\ SInv /\ [Next]_vars => (IInv /\ FInv /\ SInv)'
<1> SUFFICES ASSUME IInv, FInv, SInv, [Next]_vars PROVE FInv' /\ SInv'
    BY NextKeeps
<1>1. ASSUME NEW selection \in Selections, NEW bar \in Bars, NEW absolute \in BOOLEAN,
             Gather(selection, bar, absolute)
      PROVE  FInv' /\ SInv'
      BY <1>1, GatherKeepsFiles, GatherKeepsServer DEF Gather
<1>2. CASE FetchFails
      BY <1>2, FetchFailsKeepsFiles, CollectorKeepsServer DEF FetchFails
<1>3. CASE OpenFile
      BY <1>3, OpenFileKeepsFiles, CollectorKeepsServer DEF OpenFile
<1>4. CASE WriteRow
      BY <1>4, WriteRowKeepsFiles, CollectorKeepsServer DEF WriteRow
<1>5. CASE CloseFile
      BY <1>5, CloseFileKeepsFiles, CollectorKeepsServer DEF CloseFile
<1>6. CASE OpenManifest
      BY <1>6, OpenManifestKeepsFiles, CollectorKeepsServer DEF OpenManifest
<1>7. CASE CloseManifest
      BY <1>7, CloseManifestKeepsFiles, CollectorKeepsServer DEF CloseManifest
<1>8. CASE CollectorCrashes
      BY <1>8, CollectorCrashesKeepsFiles, CollectorKeepsServer DEF CollectorCrashes
<1>9. ASSUME UNCHANGED <<disk, manifest, gathers, job>>
      PROVE  FInv'
  <2>1. OnDisk' = OnDisk /\ Current' = Current
        BY <1>9 DEF OnDisk, Current
  <2> QED BY <1>9, <2>1 DEF FInv, OfOneGather, JobFits, Filed, ManifestFits, IsManifest
<1>10. ASSUME NEW reaches \in BOOLEAN, StartServer(reaches)
       PROVE  FInv' /\ SInv'
       BY <1>9, <1>10, StartKeepsServer DEF StartServer
<1>11. ASSUME NEW reaches \in BOOLEAN, StartFails(reaches)
       PROVE  FInv' /\ SInv'
       BY <1>9, <1>11, GoesDown DEF StartFails
<1>12. CASE StopServer
       BY <1>9, <1>12, GoesDown DEF StopServer
<1>13. CASE UNCHANGED vars
       BY <1>9, <1>13, UnchangedKeepsServer DEF vars
<1> QED BY <1>1, <1>2, <1>3, <1>4, <1>5, <1>6, <1>7, <1>8, <1>10, <1>11, <1>12, <1>13 DEF Next

LEMMA MaxOfTwo ==
    ASSUME NEW a \in Int, NEW b \in Int
    PROVE  Max({a, b}) = IF a >= b THEN a ELSE b
<1> DEFINE m == IF a >= b THEN a ELSE b
<1>1. m \in {a, b} /\ \A y \in {a, b} : m >= y
      OBVIOUS
<1>2. \A x \in {a, b} : (\A y \in {a, b} : x >= y) => x = m
      OBVIOUS
<1> HIDE DEF m
<1>3. Max({a, b}) = m
      BY <1>1, <1>2 DEF Max
<1> QED BY <1>3 DEF m

\* The last rows of a tape.
LEMMA HistoryIs ==
    ASSUME NEW tape \in Seq(Rows)
    PROVE  LET n == Len(tape)
               first == Max({0, n - HistoryLimit}) IN
           /\ first \in 0..n
           /\ SubSeq(tape, Max({1, n - HistoryLimit + 1}), n) =
                 [i \in 1..(n - first) |-> tape[first + i]]
<1> DEFINE n == Len(tape)
           first == Max({0, n - HistoryLimit})
           start == Max({1, n - HistoryLimit + 1})
<1>1. n \in Nat /\ HistoryLimit \in Nat
      BY LenProperties, DatasetsAssumption
<1>2. first = IF 0 >= n - HistoryLimit THEN 0 ELSE n - HistoryLimit
      BY <1>1, MaxOfTwo
<1>3. start = IF 1 >= n - HistoryLimit + 1 THEN 1 ELSE n - HistoryLimit + 1
      BY <1>1, MaxOfTwo
<1> HIDE DEF n, first, start
<1>4. first \in 0..n /\ start = first + 1
      BY <1>1, <1>2, <1>3
<1>5. SubSeq(tape, start, n) = [i \in 1..(n - first) |-> tape[first + i]]
  <2>1. SubSeq(tape, start, n) = [i \in 1..((1 + n) - start) |-> tape[(i + start) - 1]]
        BY <1>1, <1>4
  <2>2. (1 + n) - start = n - first /\ \A i \in 1..(n - first) : (i + start) - 1 = first + i
        BY <1>1, <1>4
  <2> QED BY <2>1, <2>2
<1> QED BY <1>4, <1>5 DEF n, first, start

\* What the latest gather has listed of a contract: one file, as the manifest tells it.
LEMMA LatestFile ==
    ASSUME IInv, FInv, Latest, NEW i \in DOMAIN server.listed
    PROVE  LET path == server.listed[i] IN
           /\ server.listed \in Seq(OnDisk) /\ path \in OnDisk
           /\ LastEntry(path).bars \in 0..MaxRows
           /\ disk[path] = Series(path, gathers, LastEntry(path).bars)
           /\ \A j \in DOMAIN server.listed :
                 server.listed[j].conid = path.conid => server.listed[j] = path
<1> DEFINE path == server.listed[i]
<1>1. IsManifest /\ manifest.gather = gathers /\ DirectoryOK
      BY DEF Latest, IInv
<1>2. manifest.files \in Seq(Files) /\ ManifestFits
      BY <1>1, ManifestFields DEF Manifests, FInv
<1>3. Len(manifest.files) \in Nat /\ DOMAIN manifest.files = 1..Len(manifest.files)
      BY <1>2, LenProperties
<1>4. server.listed = [k \in DOMAIN manifest.files |-> manifest.files[k].path]
      BY DEF Latest
<1>5. PICK bar \in Bars : Filed(manifest.files, bar)
      BY <1>2 DEF ManifestFits
<1>6. \A k \in DOMAIN manifest.files : manifest.files[k].path \in OnDisk
      BY <1>5 DEF Filed
<1>7. server.listed \in Seq(OnDisk)
      BY <1>3, <1>4, <1>6
<1>8. i \in DOMAIN manifest.files /\ path = manifest.files[i].path
      BY <1>4
<1>9. disk[path] = Series(path, gathers, LastEntry(path).bars)
      BY <1>1, <1>8, InvTellsFiles DEF ManifestTellsTheFiles
<1>10. LastEntry(path).bars \in 0..MaxRows
  <2>1. PICK j \in DOMAIN manifest.files : LastEntry(path) = manifest.files[j]
        BY <1>1, <1>8, LastEntryIsLast
  <2>2. manifest.files[j] \in Files
        BY <1>2, <1>3, <2>1, ElementOfSeq
  <2> QED BY <2>1, <2>2 DEF Files
<1>11. ASSUME NEW j \in DOMAIN server.listed, server.listed[j].conid = path.conid
       PROVE  server.listed[j] = path
  <2>1. j \in DOMAIN manifest.files /\ server.listed[j] = manifest.files[j].path
        BY <1>4
  <2>2. server.listed[j].bar = bar /\ path.bar = bar
        BY <1>5, <1>8, <2>1 DEF Filed
  <2>3. server.listed[j] \in Paths /\ path \in Paths
        BY <1>6, <1>8, <2>1 DEF OnDisk
  <2> QED BY <1>11, <2>2, <2>3 DEF Paths
<1> QED BY <1>6, <1>7, <1>8, <1>9, <1>10, <1>11

LEMMA InvReplays == IInv /\ FInv /\ SInv => ReplayIsTheGather
<1> SUFFICES ASSUME IInv, FInv, SInv, server.status = "up", server.gather = gathers,
                    NEW c \in Contracts
             PROVE  LET path == CHOOSE p \in ToSet(server.listed) : p.conid = c
                        times == Cardinality({i \in DOMAIN server.listed :
                                                 server.listed[i].conid = c})
                        bars == LastEntry(path).bars
                        first == Max({0, bars * times - HistoryLimit}) IN
                    IF times = 0 \/ bars = 0 THEN ~Replays(c)
                    ELSE /\ History(c) =
                              [i \in 1..bars * times - first |->
                                  Series(path, gathers, bars)[(first + i - 1) \div times + 1]]
                         /\ QuoteBar(c) = Series(path, gathers, bars)[bars]
    BY DEF ReplayIsTheGather
<1> DEFINE listed == server.listed
           path == CHOOSE p \in ToSet(listed) : p.conid = c
           times == Cardinality({i \in DOMAIN listed : listed[i].conid = c})
           bars == LastEntry(path).bars
           first == Max({0, bars * times - HistoryLimit})
           tape == server.tape[c]
           f == Series(path, gathers, bars)
<1>1. Latest
      BY DEF SInv
<1>2. listed \in Seq(OnDisk)
  <2>1. CASE DOMAIN listed = {}
    <3>1. listed \in Seq(Paths)
          BY DEF SInv, Servers
    <3> HIDE DEF listed
    <3>2. Len(listed) \in Nat /\ DOMAIN listed = 1..Len(listed)
          BY <3>1, LenProperties
    <3>3. listed # <<>> => Len(listed) \in Nat \ {0}
          BY <3>1, EmptySeq
    <3>4. listed = <<>>
      <4>1. listed # <<>> => 1 \in DOMAIN listed
            BY <3>2, <3>3
      <4> QED BY <2>1, <4>1
    <3> QED BY <3>4
  <2>2. CASE DOMAIN listed # {}
        BY <1>1, <2>2, LatestFile
  <2> QED BY <2>1, <2>2
<1>3. Len(listed) \in Nat /\ DOMAIN listed = 1..Len(listed)
      BY <1>2, LenProperties
<1>4. times = Cardinality(Of(listed, c, Len(listed))) /\ times \in Nat
  <2>1. times = Cardinality(Of(listed, c, Len(listed)))
        BY <1>3 DEF Of
  <2> HIDE DEF times, listed
  <2> QED BY <1>3, <2>1, OfOneMore
<1>5. tape = TapeOf(Loaded(listed), c)
      BY <1>1 DEF Latest
<1>6. Replays(c) <=> tape # <<>>
      BY DEF Replays
<1>7. CASE \A i \in 1..Len(listed) : listed[i].conid # c
  <2>1. tape = <<>>
        BY <1>2, <1>5, <1>7, NothingOnTape
  <2>2. times = 0
    <3>1. {i \in DOMAIN listed : listed[i].conid = c} = {}
          BY <1>3, <1>7
    <3> QED BY <3>1, FS_EmptySet
  <2> QED BY <1>6, <2>1, <2>2
<1>8. CASE \E i \in 1..Len(listed) : listed[i].conid = c
  <2>1. path \in ToSet(listed) /\ path.conid = c
        BY <1>3, <1>8 DEF ToSet
  <2>2. PICK k \in DOMAIN listed : path = listed[k]
        BY <2>1 DEF ToSet
  <2> HIDE DEF path, listed
  <2>3. /\ path \in OnDisk /\ bars \in 0..MaxRows /\ disk[path] = f
        /\ \A j \in DOMAIN listed : listed[j].conid = c => listed[j] = path
        BY <1>1, <2>1, <2>2, LatestFile DEF listed
  <2> HIDE DEF bars, f
  <2>4. /\ InSeries(f) /\ f \in Seq(Rows) /\ \A i \in 1..Len(f) : f[i].path.conid = c
        BY <1>2, <1>3, <2>1, <2>2, <2>3, ListedFiles DEF InSeries
  <2>5. Len(f) = bars /\ bars \in Nat
        BY <2>3, DatasetsAssumption DEF f, Series
  <2>6. ListsOf(listed, c, f)
        BY <1>2, <1>3, <2>3, ListedFiles DEF ListsOf
  <2>7. /\ tape \in Seq(Rows) /\ Len(tape) = bars * times
        /\ \A i \in 1..Len(tape) : tape[i] = f[((i - 1) \div times) + 1]
    <3>1. LET t == TapeOf(Loaded(listed), c)
              m == Cardinality(Of(listed, c, Len(listed))) IN
          /\ t \in Seq(Rows) /\ Len(t) = Len(f) * m
          /\ \A i \in 1..Len(t) : t[i] = f[((i - 1) \div m) + 1]
          BY <2>4, <2>6, TapeIs
    <3> HIDE DEF times, tape
    <3> QED BY <1>4, <1>5, <2>5, <3>1
  <2>8. History(c) = SubSeq(tape, Max({1, Len(tape) - HistoryLimit + 1}), Len(tape))
        BY DEF History
  <2>9. QuoteBar(c) = tape[Len(tape)]
        BY DEF QuoteBar, Last
  <2> HIDE DEF times, tape
  <2> DEFINE n == bars * times
  <2>10. n \in Nat
         BY <1>4, <2>5
  <2>11. CASE times = 0 \/ bars = 0
    <3>1. n = 0
          BY <1>4, <2>5, <2>11
    <3>2. tape = <<>>
          BY <2>7, <3>1, EmptySeq
    <3> QED BY <1>6, <2>11, <3>2 DEF path, times, bars, listed
  <2>12. CASE times # 0 /\ bars # 0
    <3>1. /\ first \in 0..n
          /\ History(c) = [i \in 1..(n - first) |-> tape[first + i]]
      <4>1. LET l == Len(tape)
                start == Max({0, l - HistoryLimit}) IN
            /\ start \in 0..l
            /\ SubSeq(tape, Max({1, l - HistoryLimit + 1}), l) =
                  [i \in 1..(l - start) |-> tape[start + i]]
            BY <2>7, HistoryIs
      <4> QED BY <2>7, <2>8, <4>1
    <3> HIDE DEF first
    <3>2. \A i \in 1..(n - first) : tape[first + i] = f[(first + i - 1) \div times + 1]
      <4> SUFFICES ASSUME NEW i \in 1..(n - first)
                   PROVE  tape[first + i] = f[(first + i - 1) \div times + 1]
          OBVIOUS
      <4> HIDE DEF n
      <4>1. first + i \in 1..n
            BY <2>10, <3>1
      <4>2. tape[first + i] = f[((first + i) - 1) \div times + 1]
            BY <2>7, <4>1 DEF n
      <4>3. (first + i) - 1 = first + i - 1
            BY <2>10, <3>1
      <4> QED BY <4>2, <4>3
    <3>3. History(c) = [i \in 1..n - first |-> f[(first + i - 1) \div times + 1]]
      <4> HIDE DEF n
      <4> QED BY <3>1, <3>2
    <3>4. QuoteBar(c) = f[bars]
      <4>1. n \in Nat \ {0} /\ ~(n <= (bars - 1) * times)
        <5>1. bars - 1 \in Nat /\ bars * times = ((bars - 1) * times) + times
              BY <1>4, <2>5, <2>12
        <5>2. (bars - 1) * times \in Nat
              BY <1>4, <5>1
        <5>3. times \in Nat \ {0}
              BY <1>4, <2>12
        <5> DEFINE x == (bars - 1) * times
        <5>4. n = x + times /\ x \in Nat
              BY <5>1, <5>2
        <5> HIDE DEF n, x
        <5>5. n \in Nat \ {0} /\ ~(n <= x)
              BY <5>3, <5>4
        <5> QED BY <5>5 DEF x
      <4>2. bars \in Nat \ {0}
            BY <2>5, <2>12
      <4>3. ((n - 1) \div times) + 1 = bars
        <5>1. n <= bars * times
              BY <2>10
        <5> HIDE DEF n
        <5> QED BY <1>4, <4>1, <4>2, <5>1, QuotientBetween
      <4>4. n \in 1..n
        <5> HIDE DEF n
        <5> QED BY <4>1
      <4> HIDE DEF n
      <4>5. tape[n] = f[((n - 1) \div times) + 1]
            BY <2>7, <4>4 DEF n
      <4>6. Len(tape) = n
            BY <2>7 DEF n
      <4> QED BY <2>9, <4>3, <4>5, <4>6
    <3> QED BY <2>12, <3>3, <3>4 DEF path, times, bars, first, f, listed
  <2> QED BY <2>11, <2>12
<1> QED BY <1>3, <1>7, <1>8

-------------------------------------------------------------------------------
(* What follows for every behaviour                                          *)

\* What is written in the directory, the job that works through its list and the
\* server have their types: a row is of a series of a gather, a job at work is at a
\* rest of its list, and a tape holds rows (datasets.py 31-101, marketdata.py 66-101).
THEOREM TypeCorrect == Spec => []TypeOK
<1>1. IInv /\ FInv /\ SInv => TypeOK
      BY DEF IInv, FInv, SInv, TypeOK
<1> QED BY <1>1, InitHoldsAll, NextKeepsAll, PTL DEF Spec

\* From a manifest until the next gather its files hold what it says, for any
\* selection, also with contracts listed twice, after any gathers that died
\* (datasets.py 42-97, 101).
THEOREM ManifestsTellTheFiles == Spec => []ManifestTellsTheFiles
<1> QED BY InitHolds, NextKeeps, InvTellsFiles, PTL DEF Spec

\* Whatever gathers have died or are at work, a tape of files listed once holds the
\* beginning of one gather's series and no bar of another, for any contracts, bar
\* sizes and numbers of gathers and bars (datasets.py 101, marketdata.py 66-101).
THEOREM TapesStayUnmixed == Spec => []TapesAreUnmixed
<1>1. SInv => TapesAreUnmixed
      BY DEF SInv
<1> QED BY <1>1, InitHoldsAll, NextKeepsAll, PTL DEF Spec

\* A server on the manifest of the latest gather quotes its last bar and answers with
\* its last HistoryLimit bars, each as often as its contract was selected, for any
\* selection, any limit and any files of earlier gathers in the directory
\* (datasets.py 42-97, marketdata.py 63-128).
THEOREM ReplaysAreTheGather == Spec => []ReplayIsTheGather
<1> QED BY InvReplays, InitHoldsAll, NextKeepsAll, PTL DEF Spec

===============================================================================
