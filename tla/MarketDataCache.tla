---------------------------- MODULE MarketDataCache ----------------------------
(***************************************************************************)
(* The historical candles of one market: CachedMarketDataProvider          *)
(* (market_data/cached.py) over ParquetMarketDataCache (cache.py) and one  *)
(* of the providers kraken.py and freqtrade.py.  Several threads fetch at  *)
(* once; between the calls of one of them the venue closes and revises     *)
(* candles, the others write artifacts, and the process may be restarted,  *)
(* perhaps with another version of the provider or of the file format.     *)
(*                                                                         *)
(* A candle is named by its opening, in bars; its values are a revision    *)
(* number, 0 for a candle the venue does not have.  Candle o closes, and   *)
(* may be known, at o + 1.  Files are written beside their path and moved  *)
(* over it, so an artifact is there whole or not at all; digests and       *)
(* quality reports of such files always verify.                            *)
(***************************************************************************)
EXTENDS Integers, FiniteSets, Sequences, FiniteSetsExt

CONSTANTS
    Workers,        \* threads that fetch
    LastOpen,       \* the venue opens candles at 0 .. LastOpen
    Ranges,         \* requests [from, to, asOf] of the historical services
    SnapshotTimes,  \* times at which the pipeline asks for a snapshot
    MaxRows,        \* most candles of a snapshot
    PageRows,       \* committed rows of one answer of Kraken
    Retries,        \* retries of a rate-limited request
    Day,            \* candles in a day, to which Freqtrade rounds a range
    Providers,      \* the providers to choose from: "kraken", "freqtrade"
    FirstClock,     \* candles closed when the process starts
    MaxGaps,        \* candles the venue lacks at first
    MaxRevisions,   \* revisions by the venue
    MaxFaults,      \* restarts and failed writes
    None            \* Python's None

ASSUME CacheAssumption ==
    /\ Workers # {} /\ LastOpen \in Nat /\ MaxRows \in Nat \ {0}
    /\ PageRows \in Nat \ {0} /\ Retries \in Nat /\ Day \in Nat \ {0}
    /\ Providers \subseteq {"kraken", "freqtrade"} /\ Providers # {}
    /\ FirstClock \in 0 .. (LastOpen + 1) /\ MaxGaps \in Nat
    /\ MaxRevisions \in Nat /\ MaxFaults \in Nat
    /\ None \notin {"incomplete", "incompatible", "immutable"}

VARIABLES
    venue,          \* candle -> its revision at the venue
    clock,          \* candles below it have closed
    provider,       \* the provider in use
    version,        \* its source and adapter version, and the file format's
    artifacts,      \* the cache: a set of artifacts, one for a request
    rawFile,        \* candle -> its revision in Freqtrade's own file, 0 if absent
    fetch,          \* worker -> the fetch it is carrying out
    revisions,      \* revisions so far
    faults,         \* faults so far
    raced           \* history: a download may have met another revision than the
                    \* cache holds, see Revise and Plan

vars == <<venue, clock, provider, version, artifacts, rawFile, fetch,
          revisions, faults, raced>>

environment == <<venue, clock, provider, version, revisions>>

Opens == 0 .. LastOpen

\* The request of a snapshot: as many rows as the provider may return.
SnapshotRequest(asOf) ==
    [from |-> Max({0, asOf - MaxRows}), to |-> asOf, asOf |-> asOf]

Requests == Ranges \cup {SnapshotRequest(t) : t \in SnapshotTimes}

Request == [from : Opens, to : 1 .. (LastOpen + 1), asOf : Int]

ASSUME RequestAssumption ==
    /\ Requests \subseteq Request
    /\ \A r \in Requests : r.from < r.to

-----------------------------------------------------------------------------
(* Candles are a set of <<open, revision>>.                                *)

OpenedIn(bars) == {b[1] : b \in bars}

\* normalize_and_assess raises on two values of one candle ...
Conflicting(bars) == \E b, c \in bars : b[1] = c[1] /\ b # c

\* ... and finds the coverage complete when every interval of the range is there.
CoverageComplete(bars, r) == r.from .. (r.to - 1) = OpenedIn(bars)

\* The rows of a range that could be known at its cutoff.
Selected(bars, r) ==
    {b \in bars : r.from <= b[1] /\ b[1] < r.to /\ b[1] + 1 <= r.asOf}

-----------------------------------------------------------------------------
(* The cache.  An artifact is [request, bars, fetched, version]; its path  *)
(* is made of the request alone.                                           *)

Exists(r) == \E a \in artifacts : a.request = r
At(r) == CHOOSE a \in artifacts : a.request = r

\* load with the versions in use: anything else is a miss.
Hit(r) == Exists(r) /\ At(r).version = version

\* _validated_results: the artifacts of the series in the versions in use.
Usable == {a \in artifacts : a.version = version}

\* _validated_bars, of which a conflict is an error.
Series == UNION {a.bars : a \in Usable}

\* load_range: the candles of the range from whatever artifacts hold them.
Composable(r) == CoverageComplete(Selected(Series, r), r)

Composed(r) ==
    [request |-> r, bars |-> Selected(Series, r), version |-> version,
     fetched |-> Max({a.fetched : a \in Usable})]

\* Maximal runs of a set of candles, as pairs [from, to).
Runs(opens) ==
    {run \in {[from |-> x, to |-> y + 1] : x, y \in opens} :
        /\ run.from < run.to /\ run.from .. (run.to - 1) \subseteq opens
        /\ (run.from - 1) \notin opens /\ run.to \notin opens}

\* Mutant: whatever the cache lacks, the whole request is downloaded.
MissingAll(r) == <<r>>

\* missing_ranges, or the request itself, in the order of their starts.
Missing(r) ==
    LET absent == (r.from .. (r.to - 1)) \ OpenedIn(Selected(Series, r))
        parts == {[r EXCEPT !.from = run.from, !.to = run.to] : run \in Runs(absent)}
        Nth(n) == CHOOSE p \in parts : Cardinality({q \in parts : q.from < p.from}) = n - 1
    IN IF parts = {} THEN <<r>> ELSE [n \in 1 .. Cardinality(parts) |-> Nth(n)]

\* inspect_availability, as HistoricalScenarioService.availability calls it to
\* show what the cache holds: of any version.
Availability ==
    Runs(OpenedIn(UNION {a.bars : a \in {x \in artifacts : x.version.format = version.format}}))

-----------------------------------------------------------------------------
(* The fetches of the workers.                                             *)

Steps == {"idle", "compose", "plan", "download", "read", "check", "write", "assemble"}

\* An idle worker, with the answer of its last fetch if that was served.
Idle(answer) ==
    [step |-> "idle", request |-> None, parts |-> <<>>, cursor |-> 0, attempt |-> 0,
     rows |-> {}, result |-> answer]

Init ==
    /\ venue \in [Opens -> {0, 1}]
    /\ Cardinality({o \in Opens : venue[o] = 0}) <= MaxGaps
    /\ clock = FirstClock
    /\ provider \in Providers
    /\ version = [semantic |-> 1, format |-> 1]
    /\ artifacts = {}
    /\ rawFile = [o \in Opens |-> 0]
    /\ fetch = [w \in Workers |-> Idle(None)]
    /\ revisions = 0 /\ faults = 0 /\ raced = FALSE

Goto(w, next) == fetch' = [fetch EXCEPT ![w] = next]

\* The fetch raises; its error is the caller's affair.
Fails(w) ==
    /\ Goto(w, Idle(None))
    /\ UNCHANGED <<artifacts, rawFile, environment, faults, raced>>

Serves(w, result) == Goto(w, Idle(result))

\* fetch_historical begins: an artifact of the very request, complete and fetched
\* after its end, is the answer.
Lookup(w, r) ==
    /\ fetch[w].step = "idle"
    /\ IF Hit(r) /\ CoverageComplete(At(r).bars, r) /\ r.to <= At(r).fetched
         THEN Serves(w, At(r))
         ELSE Goto(w, [Idle(None) EXCEPT !.step = "compose", !.request = r])
    /\ UNCHANGED <<artifacts, rawFile, environment, faults, raced>>

\* load_range: the answer may be composed of neighbouring artifacts.
Compose(w) ==
    LET r == fetch[w].request IN
    /\ fetch[w].step = "compose"
    /\ IF Conflicting(Selected(Series, r))
         THEN Fails(w)
         ELSE /\ Goto(w, IF Composable(r)
                           THEN [fetch[w] EXCEPT !.step = "check", !.result = Composed(r)]
                           ELSE [fetch[w] EXCEPT !.step = "plan"])
              /\ UNCHANGED <<artifacts, rawFile, environment, faults, raced>>

StartPart(f, parts) ==
    [f EXCEPT !.step = "download", !.parts = parts, !.cursor = Head(parts).from,
              !.attempt = 0, !.rows = {}, !.result = None]

\* missing_ranges.  When another worker has stored all of them since the look
\* of load_range, nothing is missing and the whole request is downloaded again.
Plan(w) ==
    /\ fetch[w].step = "plan"
    /\ IF Conflicting(Series)
         THEN Fails(w)
         ELSE /\ Goto(w, StartPart(fetch[w], Missing(fetch[w].request)))
              /\ raced' = (raced \/ Composable(fetch[w].request))
              /\ UNCHANGED <<artifacts, rawFile, environment, faults>>

\* What a provider returns for the part it was asked for.
Received(w, rows) ==
    LET part == Head(fetch[w].parts)
        bars == Selected(rows, part) IN
    IF Conflicting(bars) THEN Fails(w)
    ELSE /\ Goto(w, [fetch[w] EXCEPT !.step = "check", !.rows = {}, !.cursor = 0, !.attempt = 0,
                       !.result = [request |-> part, bars |-> bars, fetched |-> clock,
                                   version |-> version]])
         /\ UNCHANGED <<artifacts, rawFile, environment, faults, raced>>

ProviderFails(w) ==
    /\ fetch[w].step \in {"download", "read"}
    /\ Fails(w)

\* A rate-limited request is made again, a number of times.
RateLimited(w) ==
    /\ fetch[w].step = "download" /\ provider = "kraken"
    /\ IF fetch[w].attempt >= Retries
         THEN Fails(w)
         ELSE /\ Goto(w, [fetch[w] EXCEPT !.attempt = @ + 1])
              /\ UNCHANGED <<artifacts, rawFile, environment, faults, raced>>

\* Mutant of Page: the row in progress is kept.
PageWithCurrent(cursor) ==
    {<<o, venue[o]>> : o \in {x \in Opens : /\ cursor <= x /\ x < cursor + PageRows
                                            /\ x <= clock /\ venue[x] # 0}}

\* The committed rows from the cursor on; the row in progress is discarded.
Page(cursor) ==
    {<<o, venue[o]>> : o \in {x \in Opens : /\ cursor <= x /\ x < cursor + PageRows
                                            /\ x < clock /\ venue[x] # 0}}

\* One answer of Kraken; its cursor is the opening of its last committed row.
FetchPage(w) ==
    /\ fetch[w].step = "download" /\ provider = "kraken"
    /\ LET page == Page(fetch[w].cursor)
           rows == fetch[w].rows \cup page
           next == IF page = {} THEN fetch[w].cursor ELSE Max(OpenedIn(page)) IN
       IF next <= fetch[w].cursor \/ next >= Head(fetch[w].parts).to
         THEN Received(w, rows)
         ELSE /\ Goto(w, [fetch[w] EXCEPT !.rows = rows, !.cursor = next, !.attempt = 0])
              /\ UNCHANGED <<artifacts, rawFile, environment, faults, raced>>

\* The days of the part are downloaded into Freqtrade's own file, which keeps
\* the rows it has.
DownloadToFile(w) ==
    LET part == Head(fetch[w].parts)
        Midnight(o) == (o \div Day) * Day IN
    /\ fetch[w].step = "download" /\ provider = "freqtrade"
    /\ rawFile' = [o \in Opens |->
         IF /\ rawFile[o] = 0 /\ o < clock
            /\ Midnight(part.from) <= o /\ o < Midnight(part.to)
           THEN venue[o] ELSE rawFile[o]]
    /\ Goto(w, [fetch[w] EXCEPT !.step = "read"])
    /\ UNCHANGED <<artifacts, environment, faults, raced>>

\* normalize: the rows of the file that belong to the part.
ReadFile(w) ==
    /\ fetch[w].step = "read"
    /\ Received(w, {<<o, rawFile[o]>> : o \in {x \in Opens : rawFile[x] # 0}})

\* Mutant: the identity of the content leaves the versions out.
RefusalIgnoringVersion(result) ==
    IF ~CoverageComplete(result.bars, result.request) THEN "incomplete"
    ELSE IF ~Exists(result.request) THEN None
    ELSE IF At(result.request).version.format # version.format THEN "incompatible"
    ELSE IF At(result.request).bars = result.bars THEN None
    ELSE "immutable"

\* store refuses an incomplete result, and one that differs from the artifact
\* at its path in anything but the time of the fetch.
Refusal(result) ==
    IF ~CoverageComplete(result.bars, result.request) THEN "incomplete"
    ELSE IF ~Exists(result.request) THEN None
    ELSE IF At(result.request).version.format # version.format THEN "incompatible"
    ELSE IF /\ At(result.request).version.semantic = result.version.semantic
            /\ At(result.request).bars = result.bars THEN None
    ELSE "immutable"

\* What follows a store: the next part, the assembly of all, or the answer.
AfterStore(w) ==
    LET f == fetch[w] IN
    IF f.parts = <<>> THEN Serves(w, f.result)
    ELSE Goto(w, IF Len(f.parts) > 1 THEN StartPart(f, Tail(f.parts))
                 ELSE [f EXCEPT !.step = "assemble", !.parts = <<>>, !.result = None])

\* store, up to its look at the path.
Check(w) ==
    LET result == fetch[w].result IN
    /\ fetch[w].step = "check"
    /\ \/ /\ Refusal(result) # None
          /\ Fails(w)
       \/ /\ Refusal(result) = None /\ Exists(result.request)
          /\ AfterStore(w)
          /\ UNCHANGED <<artifacts, rawFile, environment, faults, raced>>
       \/ /\ Refusal(result) = None /\ ~Exists(result.request)
          /\ Goto(w, [fetch[w] EXCEPT !.step = "write"])
          /\ UNCHANGED <<artifacts, rawFile, environment, faults, raced>>

\* store moves the new file over the path, whatever has appeared there.
Write(w) ==
    /\ fetch[w].step = "write"
    /\ artifacts' = {a \in artifacts : a.request # fetch[w].result.request}
                      \cup {fetch[w].result}
    /\ AfterStore(w)
    /\ UNCHANGED <<rawFile, environment, faults, raced>>

\* The disk fails the write; the temporary file is never looked at.
WriteFails(w) ==
    /\ fetch[w].step = "write" /\ faults < MaxFaults
    /\ faults' = faults + 1
    /\ Goto(w, Idle(None))
    /\ UNCHANGED <<artifacts, rawFile, environment, raced>>

\* Every part is stored: load_range again, which must now be complete.
Assemble(w) ==
    LET r == fetch[w].request IN
    /\ fetch[w].step = "assemble"
    /\ IF Conflicting(Selected(Series, r)) THEN Fails(w)
       ELSE IF ~Composable(r) THEN Fails(w)
       ELSE /\ Goto(w, [fetch[w] EXCEPT !.step = "check", !.result = Composed(r)])
            /\ UNCHANGED <<artifacts, rawFile, environment, faults, raced>>

-----------------------------------------------------------------------------
(* The venue, time and restarts.                                           *)

CloseCandle ==
    /\ clock <= LastOpen
    /\ clock' = clock + 1
    /\ UNCHANGED <<venue, provider, version, artifacts, rawFile, fetch, revisions,
                   faults, raced>>

\* The venue corrects a closed candle, or supplies one that was missing.
Revise(o) ==
    /\ o < clock /\ revisions < MaxRevisions
    /\ venue' = [venue EXCEPT ![o] = @ + 1]
    /\ revisions' = revisions + 1
    /\ raced' = (raced \/ \E w \in Workers : fetch[w].step # "idle")
    /\ UNCHANGED <<clock, provider, version, artifacts, rawFile, fetch, faults>>

\* The process ends with every fetch and starts again, perhaps upgraded; the
\* answers live on in the records of the runs that used them.
Restart(upgraded) ==
    /\ faults < MaxFaults
    /\ faults' = faults + 1
    /\ version' = upgraded
    /\ fetch' = [w \in Workers |-> IF fetch[w].step = "idle" THEN fetch[w] ELSE Idle(None)]
    /\ UNCHANGED <<venue, clock, provider, artifacts, rawFile, revisions, raced>>

Upgrades == {version, [version EXCEPT !.semantic = @ + 1], [version EXCEPT !.format = @ + 1]}

Next ==
    \/ \E w \in Workers :
         \/ \E r \in Requests : Lookup(w, r)
         \/ Compose(w) \/ Plan(w)
         \/ FetchPage(w) \/ RateLimited(w) \/ DownloadToFile(w) \/ ReadFile(w)
         \/ ProviderFails(w)
         \/ Check(w) \/ Write(w) \/ WriteFails(w) \/ Assemble(w)
    \/ CloseCandle
    \/ \E o \in Opens : Revise(o)
    \/ \E v \in Upgrades : Restart(v)

Spec == Init /\ [][Next]_vars

-----------------------------------------------------------------------------
(* Properties.                                                             *)

Bars == SUBSET (Opens \X (1 .. MaxRevisions + 1))
Version == [semantic : 1 .. MaxFaults + 1, format : 1 .. MaxFaults + 1]
Artifact == [request : Request, bars : Bars, fetched : 0 .. (LastOpen + 1), version : Version]

\* Types, and one artifact for a path.
TypeOK ==
    /\ venue \in [Opens -> 0 .. MaxRevisions + 1]
    /\ clock \in 0 .. (LastOpen + 1)
    /\ provider \in Providers
    /\ version \in Version
    /\ \A a \in artifacts :
         /\ a.request \in Request /\ a.bars \in Bars /\ a.fetched \in 0 .. (LastOpen + 1)
         /\ a.version \in Version
         /\ a = At(a.request)
    /\ rawFile \in [Opens -> 0 .. MaxRevisions + 1]
    /\ \A w \in Workers :
         /\ fetch[w].step \in Steps
         /\ fetch[w].rows \in Bars
    /\ revisions \in 0 .. MaxRevisions /\ faults \in 0 .. MaxFaults /\ raced \in BOOLEAN

Answered(w) == fetch[w].step = "idle" /\ fetch[w].result # None

\* Whatever the caches, providers and versions on the way, an answer holds every
\* candle of its request, once, and none that could not be known at its cutoff or
\* had not closed (fetch_historical, load_range, store).
AnswerIsExact ==
    \A w \in Workers : Answered(w) =>
        LET answer == fetch[w].result IN
        /\ CoverageComplete(answer.bars, answer.request) /\ ~Conflicting(answer.bars)
        /\ \A b \in answer.bars : b[1] + 1 <= answer.request.asOf /\ b[1] < clock

\* Unless the venue revised a candle while a fetch was under way, or a worker that
\* looked too early downloaded what another had just stored (cached.py:61-66), the
\* series can be read: the artifacts of a version never disagree about a candle, so
\* that no read fails with a conflict (_validated_bars, normalize_and_assess), and
\* each range that discovery shows is composed from the cache alone, if nothing is
\* left of another version (two walks over the files that must agree).
SeriesIsReadable ==
    ~raced =>
        /\ ~Conflicting(Series)
        /\ artifacts = Usable =>
             \A run \in Availability :
                 Composable([from |-> run.from, to |-> run.to, asOf |-> run.to])

\* And an answer can be read again, candle for candle, from the artifact its
\* provenance names, for as long as its version is in use: through revisions,
\* restarts and the fetches and writes of others (the candle endpoint of a finished
\* run, and every replay, load it by that name).
AnswersReload ==
    ~raced => \A w \in Workers : Answered(w) /\ fetch[w].result.version = version =>
        /\ Hit(fetch[w].result.request)
        /\ At(fetch[w].result.request).bars = fetch[w].result.bars

\* What docs/historical-scenarios.md says of the identity of an artifact, that it
\* includes the source and adapter versions (and docs/market-data.md, that a stale
\* version is a miss and is refreshed): the artifact of another version is never in
\* the way of a result.  The path has no version in it (path_for, store).
StaleVersionIsRefreshed ==
    \A w \in Workers :
        fetch[w].step = "check" /\ CoverageComplete(fetch[w].result.bars, fetch[w].result.request) =>
            (Exists(fetch[w].result.request) => Hit(fetch[w].result.request))

\* What docs/historical-scenarios.md says of a partial overlap: the absent candles
\* are computed and only those ranges downloaded.
OnlyAbsentIsDownloaded ==
    [][\A w \in Workers :
        fetch[w].step = "plan" /\ fetch'[w].step = "download" =>
            \A n \in DOMAIN fetch'[w].parts :
                Selected(Series, fetch'[w].parts[n]) = {}]_vars
=============================================================================
