------------------------------- MODULE Datasets -------------------------------
(***************************************************************************)
(* The dataset directory between two programs: the collector (datasets.py,   *)
(* started by "gather-dataset" of __main__.py) writes a file for each        *)
(* contract and bar size and, at its end, the manifest; a server with the    *)
(* replay provider (marketdata.py CSVReplayMarketDataProvider) reads what it *)
(* finds when it starts.  Either process may die at any moment, and later    *)
(* gathers write into the same directory, one at a time.                     *)
(*                                                                         *)
(* A row of a file is one bar: the position in the series it was gathered    *)
(* with stands for its times and prices, and the number of the gather tells  *)
(* the series apart.  A server reads the directory in one step, between two  *)
(* steps of the collector.                                                   *)
(***************************************************************************)
EXTENDS Integers, Sequences, SequencesExt

CONSTANTS
    Contracts,      \* the conids that have been seeded
    AllContracts,   \* the same, sorted
    Unknown,        \* other conids
    Bars,           \* bar sizes: part of a file's name
    Selections,     \* --conids; the empty list stands for none given
    HistoryLimit,   \* bars that history() returns at most (1000)
    NoFile, NoManifest, TornManifest,
    MaxRows,        \* bound on the bars that a provider has
    MaxGathers      \* bound on the gathers into the directory

ASSUME DatasetsAssumption ==
    /\ AllContracts \in Seq(Contracts) /\ ToSet(AllContracts) = Contracts
    /\ Bars # {}
    /\ Contracts \cap Unknown = {}
    /\ Selections \subseteq Seq(Contracts \cup Unknown)
    /\ HistoryLimit \in Nat \ {0}
    /\ MaxRows \in Nat /\ MaxGathers \in Nat

VARIABLES
    disk,           \* the CSV files
    manifest,       \* manifest.json
    gathers,        \* how many gathers have been started
    job,            \* the collector
    server          \* the replay provider of the server

vars == <<disk, manifest, gathers, job, server>>

-------------------------------------------------------------------------------
(* State                                                                     *)

Paths == [conid : Contracts, bar : Bars]
Path(conid, bar) == [conid |-> conid, bar |-> bar]

\* torn: the writer died within the row.
Rows == [path : Paths, gather : 1..MaxGathers, time : 1..MaxRows, torn : BOOLEAN]

ASSUME NoFileAssumption == NoFile \notin Seq(Rows)

Series(path, gather, n) ==
    [i \in 1..n |-> [path |-> path, gather |-> gather, time |-> i, torn |-> FALSE]]

Files == [path : Paths, bars : 0..MaxRows]

Manifests ==
    [gather : 1..MaxGathers, files : Seq(Files), errors : SUBSET (Contracts \cup Unknown),
     absolute : BOOLEAN]

\* todo begins with the contract the job is at; left are the rows to be written.
Jobs ==
    [step : {"idle", "fetch", "write", "manifest"}, bar : Bars, absolute : BOOLEAN,
     selected : Seq(Contracts \cup Unknown), todo : Seq(Contracts \cup Unknown),
     left : Seq(Rows), files : Seq(Files), errors : SUBSET (Contracts \cup Unknown)]

Resting ==
    [step |-> "idle", bar |-> CHOOSE b \in Bars : TRUE, absolute |-> FALSE,
     selected |-> <<>>, todo |-> <<>>, left |-> <<>>, files |-> <<>>, errors |-> {}]

\* gather is the one whose manifest was read, 0 without a manifest.
Servers ==
    [status : {"down", "failed", "up"}, listed : Seq(Paths), gather : 0..MaxGathers,
     tape : [Contracts -> Seq(Rows)]]

Down(status) ==
    [status |-> status, listed |-> <<>>, gather |-> 0, tape |-> [c \in Contracts |-> <<>>]]

IsManifest == manifest \notin {NoManifest, TornManifest}
Current == Path(Head(job.todo), job.bar)

\* A running job has worked off the beginning of its list.
JobFits ==
    /\ job.step # "idle" => IsSuffix(job.todo, job.selected)
    /\ Len(job.files) + Len(job.todo) <= Len(job.selected)
    /\ job.step = "write" => job.todo # <<>> /\ disk[Current] # NoFile

DirectoryOK ==
    /\ disk \in [Paths -> Seq(Rows) \cup {NoFile}]
    /\ manifest \in Manifests \cup {NoManifest, TornManifest}
    /\ gathers \in 0..MaxGathers
    /\ job \in Jobs

TypeOK == DirectoryOK /\ JobFits /\ server \in Servers

Init ==
    /\ disk = [p \in Paths |-> NoFile]
    /\ manifest = NoManifest
    /\ gathers = 0
    /\ job = Resting
    /\ server = Down("down")

-------------------------------------------------------------------------------
(* The collector                                                             *)

Gather(selection, bar, absolute) ==
    /\ job.step = "idle" /\ gathers < MaxGathers
    /\ gathers' = gathers + 1
    /\ LET selected == IF selection = <<>> THEN AllContracts ELSE selection IN
       job' = [Resting EXCEPT !.step = "fetch", !.bar = bar, !.absolute = absolute,
                              !.selected = selected, !.todo = selected]
    /\ UNCHANGED <<disk, manifest, server>>

\* Goes on without a word about the contract.
FailedMutant(conid) == job.errors

Failed(conid) == job.errors \cup {conid}

\* An unknown conid, or no provider has its history: the next one.
FetchFails ==
    /\ job.step = "fetch" /\ job.todo # <<>>
    /\ job' = [job EXCEPT !.errors = Failed(Head(job.todo)), !.todo = Tail(@)]
    /\ UNCHANGED <<disk, manifest, gathers, server>>

\* Opened to append.
OpenedMutant(path) == IF disk[path] = NoFile THEN <<>> ELSE disk[path]

\* Opened to write: what an earlier gather has left is gone.
Opened(path) == <<>>

OpenFile ==
    /\ job.step = "fetch" /\ job.todo # <<>>
    /\ Head(job.todo) \in Contracts
    /\ \E n \in 0..MaxRows :
          job' = [job EXCEPT !.step = "write", !.left = Series(Current, gathers, n)]
    /\ disk' = [disk EXCEPT ![Current] = Opened(Current)]
    /\ UNCHANGED <<manifest, gathers, server>>

WriteRow ==
    /\ job.step = "write" /\ job.left # <<>>
    /\ disk' = [disk EXCEPT ![Current] = Append(@, Head(job.left))]
    /\ job' = [job EXCEPT !.left = Tail(@)]
    /\ UNCHANGED <<manifest, gathers, server>>

\* Gathers the same contract again.
RestMutant == job.todo

Rest == Tail(job.todo)

CloseFile ==
    /\ job.step = "write" /\ job.left = <<>>
    /\ job' = [job EXCEPT !.step = "fetch", !.todo = Rest,
                  !.files = Append(@, [path |-> Current, bars |-> Len(disk[Current])])]
    /\ UNCHANGED <<disk, manifest, gathers, server>>

\* write_text empties the file before it fills it.
OpenManifest ==
    /\ job.step = "fetch" /\ job.todo = <<>>
    /\ manifest' = TornManifest
    /\ job' = [job EXCEPT !.step = "manifest"]
    /\ UNCHANGED <<disk, gathers, server>>

CloseManifest ==
    /\ job.step = "manifest"
    /\ manifest' = [gather |-> gathers, files |-> job.files, errors |-> job.errors,
                    absolute |-> job.absolute]
    /\ job' = [job EXCEPT !.step = "idle"]
    /\ UNCHANGED <<disk, gathers, server>>

\* The process dies: what it has written stays, the last row perhaps in part.
CollectorCrashes ==
    /\ job.step # "idle"
    /\ \/ UNCHANGED disk
       \/ /\ job.step = "write" /\ job.left # <<>>
          /\ disk' = [disk EXCEPT ![Current] = Append(@, [Head(job.left) EXCEPT !.torn = TRUE])]
    /\ job' = Resting
    /\ UNCHANGED <<manifest, gathers, server>>

-------------------------------------------------------------------------------
(* The server                                                                *)

OnDisk == {p \in Paths : disk[p] # NoFile}

\* The files of the manifest, or all there are without one.  A relative path is
\* one from the directory the collector ran in: a server elsewhere, that does not
\* reach it, skips the file.
Listed(reaches) ==
    IF ~IsManifest THEN SetToSeq(OnDisk)
    ELSE IF manifest.absolute \/ reaches
         THEN [i \in DOMAIN manifest.files |-> manifest.files[i].path]
         ELSE <<>>

Loaded(listed) == FlattenSeq([i \in DOMAIN listed |-> disk[listed[i]]])

\* One step of sorted() by the start of the bars, which is stable.
Placed(tape, row) ==
    InsertAt(tape, Cardinality({i \in DOMAIN tape : tape[i].time <= row.time}) + 1, row)

\* The rows of a contract, from all files, in order.
TapeOf(rows, c) ==
    FoldLeft(LAMBDA tape, row : IF row.path.conid = c THEN Placed(tape, row) ELSE tape,
             <<>>, rows)

Readable == gathers > 0 /\ manifest # TornManifest

StartServer(reaches) ==
    LET listed == Listed(reaches)
        rows == Loaded(listed) IN
    /\ server.status # "up"
    /\ Readable /\ rows # <<>>
    /\ server' = [status |-> "up", listed |-> listed,
                  gather |-> IF IsManifest THEN manifest.gather ELSE 0,
                  tape |-> [c \in Contracts |-> TapeOf(rows, c)]]
    /\ UNCHANGED <<disk, manifest, gathers, job>>

\* No directory, half a manifest, nothing to replay; half a row that does not
\* parse, where one that does is loaded with a wrong value.
StartFails(reaches) ==
    LET rows == Loaded(Listed(reaches)) IN
    /\ server.status # "up"
    /\ ~Readable \/ rows = <<>> \/ \E i \in DOMAIN rows : rows[i].torn
    /\ server' = Down("failed")
    /\ UNCHANGED <<disk, manifest, gathers, job>>

StopServer ==
    /\ server.status = "up"
    /\ server' = Down("down")
    /\ UNCHANGED <<disk, manifest, gathers, job>>

\* What the replay provider answers while it has bars of the contract; without
\* any the next provider of the chain is asked.
Replays(c) == server.tape[c] # <<>>

\* The oldest bars instead of the latest.
HistoryMutant(c) ==
    SubSeq(server.tape[c], 1, Min({Len(server.tape[c]), HistoryLimit}))

History(c) ==
    LET bars == server.tape[c]
        n == Len(bars) IN
    SubSeq(bars, Max({1, n - HistoryLimit + 1}), n)

QuoteBar(c) == Last(server.tape[c])

-------------------------------------------------------------------------------

Next ==
    \/ \E selection \in Selections, bar \in Bars, absolute \in BOOLEAN :
          Gather(selection, bar, absolute)
    \/ FetchFails \/ OpenFile \/ WriteRow \/ CloseFile
    \/ OpenManifest \/ CloseManifest \/ CollectorCrashes
    \/ \E reaches \in BOOLEAN : StartServer(reaches) \/ StartFails(reaches)
    \/ StopServer

Spec == Init /\ [][Next]_vars

-------------------------------------------------------------------------------
(* Properties                                                                *)

EntriesOf(path) == {i \in DOMAIN manifest.files : manifest.files[i].path = path}
LastEntry(path) ==
    manifest.files[CHOOSE i \in EntriesOf(path) : \A j \in EntriesOf(path) : j <= i]

\* From the manifest until the next gather, every file it lists holds exactly the
\* bars it says and nothing of earlier gathers, complete or not; and a selected
\* contract has its file or its error (datasets.py 42-97, 101).
ManifestTellsTheFiles ==
    IsManifest /\ manifest.gather = gathers =>
        /\ \A i \in DOMAIN manifest.files :
              LET path == manifest.files[i].path IN
              disk[path] = Series(path, gathers, LastEntry(path).bars)
        /\ ToSet(job.selected) =
              {manifest.files[i].path.conid : i \in DOMAIN manifest.files} \cup manifest.errors

\* A server that has started on the manifest of the latest gather replays that
\* gather: the quote is its last bar, the history its last HistoryLimit bars in
\* order, each as often as its contract was selected, and nothing of what other
\* gathers left in the directory (datasets.py 42-97, marketdata.py 63-128).
ReplayIsTheGather ==
    server.status = "up" /\ server.gather = gathers =>
        \A c \in Contracts :
            LET path == CHOOSE p \in ToSet(server.listed) : p.conid = c
                times == Cardinality({i \in DOMAIN server.listed : server.listed[i].conid = c})
                bars == LastEntry(path).bars
                first == Max({0, bars * times - HistoryLimit}) IN
            IF times = 0 \/ bars = 0 THEN ~Replays(c)
            ELSE /\ History(c) =
                      [i \in 1..bars * times - first |->
                          Series(path, gathers, bars)[(first + i - 1) \div times + 1]]
                 /\ QuoteBar(c) = Series(path, gathers, bars)[bars]

\* Whichever gathers have finished, died or are at work: as long as no contract is
\* listed twice, a tape is the beginning of one gather's series, without a gap and
\* without a bar of another one (datasets.py 101, marketdata.py 66-101).
TapesAreUnmixed ==
    server.status = "up" /\ IsInjective([i \in DOMAIN server.listed |-> server.listed[i].conid]) =>
        \A c \in Contracts :
            Replays(c) =>
                \E bar \in Bars, g \in 1..gathers, n \in 1..MaxRows :
                    [i \in DOMAIN server.tape[c] |-> [server.tape[c][i] EXCEPT !.torn = FALSE]]
                        = Series(Path(c, bar), g, n)

===============================================================================
