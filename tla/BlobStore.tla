------------------------------ MODULE BlobStore ------------------------------
(***************************************************************************)
(* Which blobs two devices of a project download, and what each knows of   *)
(* the other's wishes: src/blob-store/index.js (download intents and the   *)
(* streams of wanted ranges), src/blob-store/downloader.js,                *)
(* src/blob-store/entries-stream.js and src/blob-store/hyperdrive-index.js.*)
(*                                                                         *)
(* A device that is not an archive device has a filter: it wants previews  *)
(* and thumbnails only.  It tells its peers when they connect and when the *)
(* setting changes.  For every peer with a filter, and for itself, a live  *)
(* stream of the entries of all drives yields the ranges that are wanted,  *)
(* for the sync state; another such stream feeds the downloader.           *)
(*                                                                         *)
(* A drive and its core of blobs are named by the device that writes them. *)
(* Left out: reads, writes and clears of a single blob, blobs that are in  *)
(* part downloaded.  An entry that a stream has yielded is handled before  *)
(* anything else happens.                                                  *)
(***************************************************************************)
EXTENDS Naturals, Sequences

CONSTANTS
  Devices,      \* two devices
  Blobs,        \* the blobs that may be put
  Owner,        \* blob -> the device that puts it
  Previews,     \* the blobs that NON_ARCHIVE_DEVICE_DOWNLOAD_FILTER lets pass
  Settings,     \* device -> the values of isArchiveDevice that it may start with
  MaxConns,     \* bound: connections
  MaxSwitches,  \* bound: device -> calls of setIsArchiveDevice
  MaxRestarts,  \* bound: restarts, over both devices
  None

ASSUME BlobStoreAssumption ==
  /\ \E d \in Devices, e \in Devices : d # e /\ Devices = {d, e}
  /\ Owner \in [Blobs -> Devices] /\ Previews \subseteq Blobs
  /\ Settings \in [Devices -> SUBSET BOOLEAN]
  /\ MaxConns \in Nat /\ MaxSwitches \in [Devices -> Nat] /\ MaxRestarts \in Nat
  /\ None \notin Blobs

VARIABLES
  archive,     \* device -> #isArchiveDevice
  drives,      \* device -> the drives it has (#hyperdrives)
  entries,     \* device -> entries in the cores of the drives it has
  has,         \* device -> blobs whose blocks it has
  filters,     \* device -> #blobFilters, of the peer and of the device itself
  streams,     \* device -> #entriesStreams
  wants,       \* device -> what the sync state takes each device to want
  downloader,  \* device -> #downloader
  link,        \* device -> the connection on which the creator core has the peer, or 0
  used,        \* device -> the last connection it had
  chan,        \* device -> download intents sent and not yet received
  switches,    \* device -> calls of setIsArchiveDevice
  restarts

vars == <<archive, drives, entries, has, filters, streams, wants, downloader,
          link, used, chan, switches, restarts>>
dataVars == <<drives, entries, has>>
linkVars == <<link, used, chan>>

Filters == {"all", "previews"}
Stream == [open : BOOLEAN, filter : Filters, covers : SUBSET Devices, todo : SUBSET Blobs]
Closed == [open |-> FALSE, filter |-> "all", covers |-> {}, todo |-> {}]
Want == [everything : BOOLEAN, ranges : SUBSET Blobs]
Downloader == [live : BOOLEAN, filter : Filters, covers : SUBSET Devices,
               todo : SUBSET Blobs,           \* entries its stream has to yield
               current : Blobs \cup {None},   \* the entry in #processEntry
               queued : SUBSET Blobs]         \* #queuedDownloads

TypeOK ==
  /\ archive \in [Devices -> BOOLEAN]
  /\ drives \in [Devices -> SUBSET Devices]
  /\ entries \in [Devices -> SUBSET Blobs] /\ has \in [Devices -> SUBSET Blobs]
  /\ filters \in [Devices -> [Devices -> Filters]]
  /\ streams \in [Devices -> [Devices -> Stream]]
  /\ wants \in [Devices -> [Devices -> Want]]
  /\ downloader \in [Devices -> Downloader]
  /\ link \in [Devices -> 0 .. MaxConns] /\ used \in [Devices -> 0 .. MaxConns]
  /\ chan \in [Devices -> Seq([conn : 1 .. MaxConns, filter : Filters])]
  /\ switches \in [Devices -> Nat] /\ restarts \in 0 .. MaxRestarts

Other(d) == CHOOSE e \in Devices : e # d

\* getBlobDownloadFilter
FilterOf(isArchive) == IF isArchive THEN "all" ELSE "previews"

\* filePathMatchesFilter, for the one filter that is ever sent
Matches(b, filter) == filter = "all" \/ b \in Previews

----------------------------------------------------------------------------
(* Streams of entries *)

EntriesIn(d, ds) == {b \in entries[d] : Owner[b] \in ds}

\* createEntriesStream: the history of every drive there is, live.
NewStream(d, filter) ==
  [open |-> TRUE, filter |-> filter, covers |-> drives[d], todo |-> EntriesIn(d, drives[d])]

\* The constructor of Downloader
NewDownloader(d, filter) ==
  [live |-> TRUE, filter |-> filter, covers |-> drives[d],
   todo |-> EntriesIn(d, drives[d]), current |-> None, queued |-> {}]

\* Defect: the downloads that are queued are not destroyed.
Defect_DownloadsGoOn(dl) == [dl EXCEPT !.live = FALSE, !.todo = {}, !.current = None]

\* #handleAbort, and the checks of the signal after every await: nothing that
\* was under way goes on.
Aborted(dl) == [dl EXCEPT !.live = FALSE, !.todo = {}, !.current = None, !.queued = {}]

\* setIsArchiveDevice replaces the downloader by one that starts again.
Replaced(d, filter) ==
  LET old == Aborted(downloader[d])
      new == NewDownloader(d, filter)
  IN [new EXCEPT !.current = old.current, !.queued = old.queued]

\* What the sync state takes a device with the filter to want, before a stream
\* has yielded ranges
WantOf(filter) == [everything |-> filter = "all", ranges |-> {}]

StreamFor(d, filter) == IF filter = "all" THEN Closed ELSE NewStream(d, filter)

\* Defect: without a filter the old stream is left alone.
Defect_StreamGoesOn(d, e, filter) ==
  /\ streams' = [streams EXCEPT ![d][e] = IF filter = "all" THEN @ ELSE NewStream(d, filter)]
  /\ filters' = [filters EXCEPT ![d][e] = filter]
  /\ wants' = [wants EXCEPT ![d][e] = WantOf(filter)]

\* #handleDownloadIntent: ends the stream of the device, tells the sync state
\* (setWantsEverything), and starts a stream if there is a filter.
HandleDownloadIntent(d, e, filter) ==
  /\ streams' = [streams EXCEPT ![d][e] = StreamFor(d, filter)]
  /\ filters' = [filters EXCEPT ![d][e] = filter]
  /\ wants' = [wants EXCEPT ![d][e] = WantOf(filter)]

\* Defect: drives that are added later are missed.
Defect_DrivesAtStartOnly(s, e) == s

\* addDrive of every live stream; the drive has no entries yet.
AddDriveTo(s, e) == [s EXCEPT !.covers = @ \cup {e}]

\* An entry that is appended to a drive reaches the streams that cover it.
Yields(s, b) == IF Owner[b] \in s.covers THEN [s EXCEPT !.todo = @ \cup {b}] ELSE s

NewEntry(d, b) ==
  /\ entries' = [entries EXCEPT ![d] = @ \cup {b}]
  /\ streams' = [streams EXCEPT ![d] = [e \in Devices |-> Yields(streams[d][e], b)]]
  /\ downloader' = [downloader EXCEPT ![d] = IF @.live THEN Yields(@, b) ELSE @]

----------------------------------------------------------------------------
(* Starting *)

Init ==
  /\ archive \in {f \in [Devices -> BOOLEAN] : \A d \in Devices : f[d] \in Settings[d]}
  /\ drives = [d \in Devices |-> {d}]
  /\ entries = [d \in Devices |-> {}] /\ has = [d \in Devices |-> {}]
  /\ filters = [d \in Devices |-> [e \in Devices |->
                  IF e = d THEN FilterOf(archive[d]) ELSE "all"]]
  /\ streams = [d \in Devices |-> [e \in Devices |->
                  IF e = d THEN StreamFor(d, FilterOf(archive[d])) ELSE Closed]]
  /\ wants = [d \in Devices |-> [e \in Devices |-> WantOf(filters[d][e])]]
  /\ downloader = [d \in Devices |-> NewDownloader(d, FilterOf(archive[d]))]
  /\ link = [d \in Devices |-> 0] /\ used = [d \in Devices |-> 0]
  /\ chan = [d \in Devices |-> <<>>]
  /\ switches = [d \in Devices |-> 0] /\ restarts = 0

\* The process ends and starts again: the cores and the setting are on disk,
\* the filters of peers are not.
Restart(d) ==
  LET filter == FilterOf(archive[d]) IN
  /\ restarts < MaxRestarts
  /\ restarts' = restarts + 1
  /\ link' = [link EXCEPT ![d] = 0]
  /\ filters' = [filters EXCEPT ![d] = [e \in Devices |-> IF e = d THEN filter ELSE "all"]]
  /\ streams' = [streams EXCEPT ![d] =
                   [e \in Devices |-> IF e = d THEN StreamFor(d, filter) ELSE Closed]]
  /\ wants' = [wants EXCEPT ![d] =
                 [e \in Devices |-> WantOf(IF e = d THEN filter ELSE "all")]]
  /\ downloader' = [downloader EXCEPT ![d] = NewDownloader(d, filter)]
  /\ UNCHANGED <<archive, dataVars, used, chan, switches>>

----------------------------------------------------------------------------
(* Connections and intents *)

\* Defect: there is nothing to tell when there is no filter.
Defect_NullNotSent(d, conn, filter) ==
  IF filter = "all" THEN chan[d] ELSE Append(chan[d], [conn |-> conn, filter |-> filter])

\* sendDownloadIntents: an extension message on the creator core.
Sent(d, conn, filter) == Append(chan[d], [conn |-> conn, filter |-> filter])

\* The connections that d can be on next: the one its peer is on, or a new one.
NextConns(d) ==
  {k \in 1 .. MaxConns : k > used[d] /\ k >= used[Other(d)] /\ k <= used[Other(d)] + 1}

\* The first n messages are those of connections before k: they are never received.
Lost(msgs, k, n) == \A i \in DOMAIN msgs : i <= n <=> msgs[i].conn < k

\* 'peer-add' of the creator core: #handlePeerAdd sends the filter.  The sync
\* state makes a state for the peer from the filter that it knows.
PeerAdd(d) ==
  LET e == Other(d) IN
  /\ link[d] = 0
  /\ \E k \in NextConns(d) :
       /\ link' = [link EXCEPT ![d] = k]
       /\ used' = [used EXCEPT ![d] = k]
       /\ \E n \in 0 .. Len(chan[e]) :
            /\ Lost(chan[e], k, n)
            /\ chan' = [chan EXCEPT ![d] = Sent(d, k, FilterOf(archive[d])),
                                    ![e] = SubSeq(@, n + 1, Len(@))]
  /\ wants' = [wants EXCEPT ![d][e] = WantOf(filters[d][e])]
  /\ UNCHANGED <<archive, dataVars, filters, streams, downloader, switches, restarts>>

\* 'peer-remove': #handlePeerRemove ends the stream of the peer.
PeerRemove(d) ==
  LET e == Other(d) IN
  /\ link[d] # 0
  /\ link' = [link EXCEPT ![d] = 0]
  /\ streams' = [streams EXCEPT ![d][e] = Closed]
  /\ wants' = [wants EXCEPT ![d][e] = WantOf(filters[d][e])]
  /\ UNCHANGED <<archive, dataVars, filters, downloader, used, chan, switches, restarts>>

\* 'peer-download-intent'
ReceiveIntent(d, filter) ==
  LET e == Other(d) IN
  /\ link[d] # 0 /\ chan[e] # <<>>
  /\ Head(chan[e]) = [conn |-> link[d], filter |-> filter]
  /\ HandleDownloadIntent(d, e, filter)
  /\ chan' = [chan EXCEPT ![e] = Tail(@)]
  /\ UNCHANGED <<archive, dataVars, downloader, link, used, switches, restarts>>

SetIsArchiveDevice(d) ==
  LET filter == FilterOf(~ archive[d]) IN
  /\ switches[d] < MaxSwitches[d]
  /\ switches' = [switches EXCEPT ![d] = @ + 1]
  /\ archive' = [archive EXCEPT ![d] = ~ @]
  /\ downloader' = [downloader EXCEPT ![d] = Replaced(d, filter)]
  /\ chan' = [chan EXCEPT ![d] = IF link[d] # 0 THEN Sent(d, link[d], filter) ELSE @]
  /\ HandleDownloadIntent(d, d, filter)
  /\ UNCHANGED <<dataVars, link, used, restarts>>

----------------------------------------------------------------------------
(* Entries *)

Put(b) ==
  LET d == Owner[b] IN
  /\ b \notin entries[d]
  /\ has' = [has EXCEPT ![d] = @ \cup {b}]
  /\ NewEntry(d, b)
  /\ UNCHANGED <<archive, drives, filters, wants, linkVars, switches, restarts>>

\* 'add-core' of a core of blob entries: the drive is added, and to the streams.
AddDrive(d) ==
  LET e == Other(d) IN
  /\ e \notin drives[d]
  /\ drives' = [drives EXCEPT ![d] = @ \cup {e}]
  /\ streams' = [streams EXCEPT ![d] = [p \in Devices |->
       IF streams[d][p].open THEN AddDriveTo(streams[d][p], e) ELSE streams[d][p]]]
  /\ downloader' = [downloader EXCEPT ![d] = IF @.live THEN AddDriveTo(@, e) ELSE @]
  /\ UNCHANGED <<archive, entries, has, filters, wants, linkVars, switches, restarts>>

Connected(d) == link[d] # 0 /\ link[d] = link[Other(d)]

ReplicateEntry(d, b) ==
  /\ Connected(d) /\ Owner[b] \in drives[d]
  /\ b \in entries[Other(d)] \ entries[d]
  /\ NewEntry(d, b)
  /\ UNCHANGED <<archive, drives, has, filters, wants, linkVars, switches, restarts>>

Yielded(s, b) == [s EXCEPT !.todo = @ \ {b}]

Wanted(want, b, filter) ==
  IF Matches(b, filter) THEN [everything |-> FALSE, ranges |-> want.ranges \cup {b}] ELSE want

\* The loop of #handleDownloadIntent: 'want-blob-range' for an entry that passes
\* the filter (addWantRange of the sync state).
YieldEntry(d, e, b) ==
  /\ b \in streams[d][e].todo
  /\ streams' = [streams EXCEPT ![d][e] = Yielded(@, b)]
  /\ wants' = [wants EXCEPT ![d][e] = Wanted(@, b, streams[d][e].filter)]
  /\ UNCHANGED <<archive, dataVars, filters, downloader, linkVars, switches, restarts>>

----------------------------------------------------------------------------
(* The downloader *)

Taken(dl, b) ==
  [dl EXCEPT !.todo = @ \ {b}, !.current = IF Matches(b, dl.filter) THEN b ELSE None]

\* #processEntries takes an entry, and awaits the drive's blobs and has().
TakeEntry(d) ==
  /\ downloader[d].current = None
  /\ \E b \in downloader[d].todo :
       downloader' = [downloader EXCEPT ![d] = Taken(@, b)]
  /\ UNCHANGED <<archive, dataVars, filters, streams, wants, linkVars, switches, restarts>>

Processed(dl, isThere) ==
  [dl EXCEPT !.current = None, !.queued = IF isThere THEN @ ELSE @ \cup {dl.current}]

\* #processEntry, when has() has answered
ProcessEntry(d) ==
  /\ downloader[d].current # None
  /\ downloader' = [downloader EXCEPT ![d] = Processed(@, @.current \in has[d])]
  /\ UNCHANGED <<archive, dataVars, filters, streams, wants, linkVars, switches, restarts>>

Downloaded(dl, b) == [dl EXCEPT !.queued = @ \ {b}]

\* A queued download is done.
Download(d, b) ==
  /\ b \in downloader[d].queued
  /\ Connected(d) /\ b \in has[Other(d)]
  /\ has' = [has EXCEPT ![d] = @ \cup {b}]
  /\ downloader' = [downloader EXCEPT ![d] = Downloaded(@, b)]
  /\ UNCHANGED <<archive, drives, entries, filters, streams, wants, linkVars, switches, restarts>>

\* #handleError: has() or a download fails, and the downloader ends.
DownloaderFails(d) ==
  /\ downloader[d].current # None \/ downloader[d].queued # {}
  /\ downloader' = [downloader EXCEPT ![d] = Aborted(@)]
  /\ UNCHANGED <<archive, dataVars, filters, streams, wants, linkVars, switches, restarts>>

Next ==
  \/ \E d \in Devices :
       \/ Restart(d) \/ PeerAdd(d) \/ PeerRemove(d)
       \/ \E filter \in Filters : ReceiveIntent(d, filter)
       \/ SetIsArchiveDevice(d) \/ AddDrive(d)
       \/ TakeEntry(d) \/ ProcessEntry(d) \/ DownloaderFails(d)
       \/ \E b \in Blobs :
            ReplicateEntry(d, b) \/ Download(d, b) \/ \E e \in Devices : YieldEntry(d, e, b)
  \/ \E b \in Blobs : Put(b)

Spec == Init /\ [][Next]_vars

----------------------------------------------------------------------------
(* Properties *)

\* While two devices are connected, the last intent on its way, or the filter
\* that has been received if there is none, is the one that is in force: the
\* setting may change between peer-add at one end and at the other, before, in
\* and after a connection, and either may forget the other in a restart.
IntentsCurrent ==
  \A d \in Devices :
    LET e == Other(d) IN
    Connected(d) =>
      IF chan[d] = <<>> THEN filters[e][d] = FilterOf(archive[d])
      ELSE chan[d][Len(chan[d])] = [conn |-> link[d], filter |-> FilterOf(archive[d])]

\* What the sync state takes a device to want is what its filter lets pass of
\* the entries, but for those that its stream has still to yield: no range is
\* left of an older filter, and none is lost when streams, drives, entries and
\* filters come in another order.
WantsFollowEntries ==
  \A d \in Devices, e \in Devices :
    /\ wants[d][e].everything <=> filters[d][e] = "all"
    /\ streams[d][e].open =>
         LET matching == {b \in entries[d] : Matches(b, filters[d][e])} IN
         /\ wants[d][e].ranges \subseteq matching
         /\ matching \ streams[d][e].todo \subseteq wants[d][e].ranges

\* A device never downloads a blob that it does not want at that time, also if
\* the download was queued or about to be when the setting changed.
NoUnwantedDownload ==
  [][\A d \in Devices : \A b \in has'[d] \ has[d] :
       Owner[b] = d \/ Matches(b, FilterOf(archive[d]))]_vars

\* Every blob that a device wants and knows of is there or will be asked for,
\* as long as the downloader has not failed: a downloader that takes over
\* starts from all entries of all drives.
NoneForgotten ==
  \A d \in Devices :
    LET dl == downloader[d] IN
    dl.live =>
      \A b \in entries[d] :
        Matches(b, FilterOf(archive[d])) =>
          b \in has[d] \cup dl.todo \cup dl.queued \cup {dl.current}
=============================================================================
