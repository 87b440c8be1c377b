-------------------------- MODULE BlobStore_proofs --------------------------
(***************************************************************************)
(* That the wants of every device follow its filter and the entries, that  *)
(* no wanted blob is forgotten and that no unwanted one is downloaded, for *)
(* any blobs, settings and numbers of connections, switches and restarts.  *)
(*                                                                         *)
(* The invariant says of every open stream that it filters by what is in   *)
(* force and covers every drive (StreamsOK), and the same of the           *)
(* downloader (DownloadersOK).  Nothing in it depends on what is on its    *)
(* way between the devices: whatever filter is received is put to use.     *)
(* That this filter is the other device's own is a second invariant, of    *)
(* the messages on their way (LinksOK, at the end).                        *)
(***************************************************************************)
EXTENDS BlobStore, SequenceTheorems, TLAPS

Types ==
  /\ archive \in [Devices -> BOOLEAN]
  /\ drives \in [Devices -> SUBSET Devices]
  /\ entries \in [Devices -> SUBSET Blobs] /\ has \in [Devices -> SUBSET Blobs]
  /\ filters \in [Devices -> [Devices -> Filters]]
  /\ streams \in [Devices -> [Devices -> Stream]]
  /\ wants \in [Devices -> [Devices -> Want]]
  /\ downloader \in [Devices -> Downloader]
  /\ link \in [Devices -> 0 .. MaxConns]

\* Entries come from drives that are there.
EntriesOK(d) == d \in drives[d] /\ \A b \in entries[d] : Owner[b] \in drives[d]

StreamOK(d, e) ==
  LET s == streams[d][e] IN
  /\ s.open =>
       /\ s.filter = filters[d][e] /\ filters[d][e] # "all"
       /\ s.covers = drives[d] /\ s.todo \subseteq entries[d]
  /\ ~ s.open => s.covers = {} /\ s.todo = {}
  /\ e # d /\ link[d] = 0 => ~ s.open

WantOK(d, e) ==
  /\ wants[d][e].everything <=> filters[d][e] = "all"
  /\ streams[d][e].open =>
       LET matching == {b \in entries[d] : Matches(b, filters[d][e])} IN
       /\ wants[d][e].ranges \subseteq matching
       /\ matching \ streams[d][e].todo \subseteq wants[d][e].ranges

DownloaderOK(d) ==
  LET dl == downloader[d] IN
  /\ dl.live =>
       /\ dl.filter = FilterOf(archive[d]) /\ dl.covers = drives[d]
       /\ dl.current # None => Matches(dl.current, FilterOf(archive[d]))
       /\ \A b \in dl.queued : Matches(b, FilterOf(archive[d]))
       /\ \A b \in entries[d] :
            Matches(b, FilterOf(archive[d])) =>
              b \in has[d] \cup dl.todo \cup dl.queued \cup {dl.current}
  /\ ~ dl.live => dl.todo = {} /\ dl.current = None /\ dl.queued = {}

StreamsOK(d) == \A e \in Devices : StreamOK(d, e) /\ WantOK(d, e)

DeviceOK(d) == EntriesOK(d) /\ StreamsOK(d) /\ DownloaderOK(d)

IInv == Types /\ \A d \in Devices : DeviceOK(d)

----------------------------------------------------------------------------
(* The operators *)

LEMMA OtherIsOther ==
  ASSUME NEW d \in Devices PROVE Other(d) \in Devices /\ Other(d) # d
<1>1. \E e \in Devices : e # d
  BY BlobStoreAssumption
<1> QED
  BY <1>1 DEF Other

LEMMA NewStreamType ==
  ASSUME Types, NEW d \in Devices, NEW filter \in Filters
  PROVE  /\ NewStream(d, filter) \in Stream /\ StreamFor(d, filter) \in Stream
         /\ NewDownloader(d, filter) \in Downloader
         /\ WantOf(filter) \in Want
         /\ Closed \in Stream
<1>1. drives[d] \subseteq Devices /\ EntriesIn(d, drives[d]) \subseteq Blobs
  BY DEF Types, EntriesIn
<1> QED
  BY <1>1 DEF NewStream, StreamFor, Closed, Stream, NewDownloader, Downloader, WantOf, Want, Filters

LEMMA FilterType == ASSUME NEW x PROVE FilterOf(x) \in Filters
  BY DEF FilterOf, Filters

LEMMA YieldsType ==
  ASSUME NEW b \in Blobs
  PROVE  /\ \A s \in Stream : Yields(s, b) \in Stream
         /\ \A dl \in Downloader : Yields(dl, b) \in Downloader
<1>1. ASSUME NEW s \in Stream PROVE Yields(s, b) \in Stream
  BY DEF Yields, Stream
<1>2. ASSUME NEW dl \in Downloader PROVE Yields(dl, b) \in Downloader
  BY DEF Yields, Downloader
<1> QED
  BY <1>1, <1>2

LEMMA AddDriveType ==
  ASSUME NEW e \in Devices
  PROVE  /\ \A s \in Stream : AddDriveTo(s, e) \in Stream
         /\ \A dl \in Downloader : AddDriveTo(dl, e) \in Downloader
<1>1. ASSUME NEW s \in Stream PROVE AddDriveTo(s, e) \in Stream
  BY DEF AddDriveTo, Stream
<1>2. ASSUME NEW dl \in Downloader PROVE AddDriveTo(dl, e) \in Downloader
  BY DEF AddDriveTo, Downloader
<1> QED
  BY <1>1, <1>2

\* A downloader that takes over starts from nothing.
LEMMA ReplacedIsNew ==
  ASSUME Types, NEW d \in Devices, NEW filter \in Filters
  PROVE  Replaced(d, filter) = NewDownloader(d, filter)
<1>1. NewDownloader(d, filter) \in Downloader
  BY NewStreamType
<1>2. Aborted(downloader[d]).current = None /\ Aborted(downloader[d]).queued = {}
  BY DEF Aborted, Types, Downloader
<1>3. Replaced(d, filter) = [NewDownloader(d, filter) EXCEPT !.current = None, !.queued = {}]
  BY <1>2 DEF Replaced
<1> QED
  BY <1>3 DEF NewDownloader

\* What a new stream, and a new downloader, start with.
LEMMA Fresh ==
  ASSUME NEW d \in Devices, EntriesOK(d)
  PROVE  EntriesIn(d, drives[d]) = entries[d]
  BY DEF EntriesIn, EntriesOK

\* The updates of records keep the type.
LEMMA RecordTypes ==
  ASSUME NEW b \in Blobs
  PROVE  /\ \A s \in Stream : Yielded(s, b) \in Stream
         /\ \A want \in Want : \A filter : Wanted(want, b, filter) \in Want
         /\ \A dl \in Downloader : Taken(dl, b) \in Downloader /\ Downloaded(dl, b) \in Downloader
<1>1. ASSUME NEW s \in Stream PROVE Yielded(s, b) \in Stream
  BY DEF Stream, Yielded
<1>2. ASSUME NEW want \in Want, NEW filter PROVE Wanted(want, b, filter) \in Want
  BY DEF Want, Wanted
<1>3. ASSUME NEW dl \in Downloader
      PROVE  Taken(dl, b) \in Downloader /\ Downloaded(dl, b) \in Downloader
  BY DEF Downloader, Taken, Downloaded
<1> QED
  BY <1>1, <1>2, <1>3

LEMMA ProcessedType ==
  ASSUME NEW dl \in Downloader, dl.current # None, NEW isThere
  PROVE  Processed(dl, isThere) \in Downloader
  BY DEF Processed, Downloader

LEMMA AbortedType == ASSUME NEW dl \in Downloader PROVE Aborted(dl) \in Downloader
  BY DEF Downloader, Aborted

----------------------------------------------------------------------------
(* Type correctness, of what matters here *)

LEMMA TypesStep ==
  ASSUME Types, [Next]_vars
  PROVE  Types'
<1> USE DEF Types
<1>1. ASSUME NEW d \in Devices, Restart(d) PROVE Types'
  <2> DEFINE filter == FilterOf(archive[d])
  <2>1. /\ filter \in Filters /\ "all" \in Filters
        /\ StreamFor(d, filter) \in Stream /\ NewDownloader(d, filter) \in Downloader
        /\ Closed \in Stream /\ WantOf(filter) \in Want /\ WantOf("all") \in Want
    BY FilterType, NewStreamType DEF Filters
  <2> HIDE DEF filter
  <2>2. /\ link' = [link EXCEPT ![d] = 0]
        /\ filters' = [filters EXCEPT ![d] = [e \in Devices |-> IF e = d THEN filter ELSE "all"]]
        /\ streams' = [streams EXCEPT ![d] =
                        [e \in Devices |-> IF e = d THEN StreamFor(d, filter) ELSE Closed]]
        /\ wants' = [wants EXCEPT ![d] =
                      [e \in Devices |-> WantOf(IF e = d THEN filter ELSE "all")]]
        /\ downloader' = [downloader EXCEPT ![d] = NewDownloader(d, filter)]
        /\ UNCHANGED <<archive, drives, entries, has>>
    BY <1>1 DEF Restart, dataVars, filter
  <2>3. [e \in Devices |-> WantOf(IF e = d THEN filter ELSE "all")] \in [Devices -> Want]
    BY <2>1
  <2>4. link' \in [Devices -> 0 .. MaxConns]
    BY <2>2, BlobStoreAssumption
  <2> QED
    BY <2>1, <2>2, <2>3, <2>4
<1>2. ASSUME NEW d \in Devices, PeerAdd(d) PROVE Types'
  <2>1. Other(d) \in Devices
    BY OtherIsOther
  <2>2. WantOf(filters[d][Other(d)]) \in Want
    BY <2>1 DEF WantOf, Want
  <2>3. PICK k \in NextConns(d) : link' = [link EXCEPT ![d] = k]
    BY <1>2 DEF PeerAdd
  <2>4. link' \in [Devices -> 0 .. MaxConns]
    BY <2>3, BlobStoreAssumption DEF NextConns
  <2>5. wants' = [wants EXCEPT ![d][Other(d)] = WantOf(filters[d][Other(d)])]
    BY <1>2 DEF PeerAdd
  <2> QED
    BY <1>2, <2>1, <2>2, <2>4, <2>5 DEF PeerAdd, dataVars
<1>3. ASSUME NEW d \in Devices, PeerRemove(d) PROVE Types'
  <2>1. Other(d) \in Devices
    BY OtherIsOther
  <2>2. WantOf(filters[d][Other(d)]) \in Want /\ Closed \in Stream
    BY <2>1 DEF WantOf, Want, Closed, Stream, Filters
  <2>3. /\ link' = [link EXCEPT ![d] = 0]
        /\ wants' = [wants EXCEPT ![d][Other(d)] = WantOf(filters[d][Other(d)])]
        /\ streams' = [streams EXCEPT ![d][Other(d)] = Closed]
        /\ UNCHANGED <<archive, drives, entries, has, filters, downloader>>
    BY <1>3 DEF PeerRemove, dataVars
  <2>4. link' \in [Devices -> 0 .. MaxConns]
    BY <2>3, BlobStoreAssumption
  <2>5. wants' \in [Devices -> [Devices -> Want]] /\ streams' \in [Devices -> [Devices -> Stream]]
    BY <2>1, <2>2, <2>3
  <2> QED
    BY <2>3, <2>4, <2>5
<1>4. ASSUME NEW d \in Devices, NEW e \in Devices, NEW filter \in Filters,
             HandleDownloadIntent(d, e, filter)
      PROVE  /\ filters' \in [Devices -> [Devices -> Filters]]
             /\ streams' \in [Devices -> [Devices -> Stream]]
             /\ wants' \in [Devices -> [Devices -> Want]]
  <2>1. StreamFor(d, filter) \in Stream
    BY NewStreamType
  <2>2. WantOf(filter) \in Want
    BY DEF WantOf, Want
  <2> QED
    BY <1>4, <2>1, <2>2 DEF HandleDownloadIntent
<1>5. ASSUME NEW d \in Devices, NEW filter \in Filters, ReceiveIntent(d, filter) PROVE Types'
  BY <1>4, <1>5, OtherIsOther DEF ReceiveIntent, dataVars
<1>6. ASSUME NEW d \in Devices, SetIsArchiveDevice(d) PROVE Types'
  <2> DEFINE filter == FilterOf(~ archive[d])
  <2>1. filter \in Filters /\ Replaced(d, filter) \in Downloader
    BY FilterType, ReplacedIsNew, NewStreamType
  <2>2. HandleDownloadIntent(d, d, filter)
    BY <1>6 DEF SetIsArchiveDevice
  <2>3. downloader' = [downloader EXCEPT ![d] = Replaced(d, filter)]
    BY <1>6 DEF SetIsArchiveDevice
  <2>4. archive' \in [Devices -> BOOLEAN] /\ UNCHANGED <<drives, entries, has, link>>
    BY <1>6 DEF SetIsArchiveDevice, dataVars
  <2> QED
    BY <1>4, <2>1, <2>2, <2>3, <2>4
<1>7. ASSUME NEW d \in Devices, NEW b \in Blobs, NewEntry(d, b)
      PROVE  /\ entries' \in [Devices -> SUBSET Blobs]
             /\ streams' \in [Devices -> [Devices -> Stream]]
             /\ downloader' \in [Devices -> Downloader]
  <2>1. [e \in Devices |-> Yields(streams[d][e], b)] \in [Devices -> Stream]
    BY YieldsType
  <2>2. (IF downloader[d].live THEN Yields(downloader[d], b) ELSE downloader[d]) \in Downloader
    BY YieldsType
  <2> QED
    BY <1>7, <2>1, <2>2 DEF NewEntry
<1>8. ASSUME NEW b \in Blobs, Put(b) PROVE Types'
  <2>1. Owner[b] \in Devices
    BY BlobStoreAssumption
  <2> QED
    BY <1>7, <1>8, <2>1 DEF Put, linkVars
<1>9. ASSUME NEW d \in Devices, NEW b \in Blobs, ReplicateEntry(d, b) PROVE Types'
  BY <1>7, <1>9 DEF ReplicateEntry, linkVars
<1>10. ASSUME NEW d \in Devices, AddDrive(d) PROVE Types'
  <2> DEFINE e == Other(d)
  <2>1. e \in Devices
    BY OtherIsOther
  <2>2. [p \in Devices |-> IF streams[d][p].open THEN AddDriveTo(streams[d][p], e)
                           ELSE streams[d][p]] \in [Devices -> Stream]
    BY <2>1, AddDriveType
  <2>3. (IF downloader[d].live THEN AddDriveTo(downloader[d], e) ELSE downloader[d]) \in Downloader
    BY <2>1, AddDriveType
  <2> QED
    BY <1>10, <2>1, <2>2, <2>3 DEF AddDrive, linkVars
<1>11. ASSUME NEW d \in Devices, NEW e \in Devices, NEW b \in Blobs, YieldEntry(d, e, b) PROVE Types'
  <2>1. Yielded(streams[d][e], b) \in Stream
    BY RecordTypes
  <2>2. Wanted(wants[d][e], b, streams[d][e].filter) \in Want
    BY RecordTypes
  <2> QED
    BY <1>11, <2>1, <2>2 DEF YieldEntry, dataVars, linkVars
<1>12. ASSUME NEW d \in Devices, TakeEntry(d) PROVE Types'
  <2>1. \A b \in downloader[d].todo : Taken(downloader[d], b) \in Downloader
    BY RecordTypes DEF Downloader
  <2> QED
    BY <1>12, <2>1 DEF TakeEntry, dataVars, linkVars
<1>13. ASSUME NEW d \in Devices, NEW b \in Blobs, Download(d, b) PROVE Types'
  <2>1. Downloaded(downloader[d], b) \in Downloader
    BY RecordTypes
  <2> QED
    BY <1>13, <2>1 DEF Download, linkVars
<1>15. ASSUME NEW d \in Devices, ProcessEntry(d) PROVE Types'
  <2>1. Processed(downloader[d], downloader[d].current \in has[d]) \in Downloader
    BY <1>15, ProcessedType DEF ProcessEntry
  <2> QED
    BY <1>15, <2>1 DEF ProcessEntry, dataVars, linkVars
<1>16. ASSUME NEW d \in Devices, DownloaderFails(d) PROVE Types'
  BY <1>16, AbortedType DEF DownloaderFails, dataVars, linkVars
<1>14. CASE UNCHANGED vars
  BY <1>14 DEF vars, dataVars, linkVars
<1> QED
  BY <1>1, <1>2, <1>3, <1>5, <1>6, <1>8, <1>9, <1>10, <1>11, <1>12, <1>13, <1>14, <1>15, <1>16 DEF Next

----------------------------------------------------------------------------
(* The steps of a device *)

\* A new stream has every entry to yield, and nothing is wanted yet.
LEMMA FreshStream ==
  ASSUME NEW d \in Devices, EntriesOK(d), NEW filter
  PROVE  LET s == StreamFor(d, filter) IN
         /\ s.open <=> filter # "all"
         /\ s.open => s.filter = filter /\ s.covers = drives[d] /\ s.todo = entries[d]
         /\ ~ s.open => s.covers = {} /\ s.todo = {}
  BY Fresh DEF StreamFor, NewStream, Closed

LEMMA FreshWant ==
  ASSUME NEW filter
  PROVE  (WantOf(filter).everything <=> filter = "all") /\ WantOf(filter).ranges = {}
<1>1. WantOf(filter).everything = (filter = "all")
  BY Zenon DEF WantOf
<1> QED
  BY <1>1 DEF WantOf

\* So does a new downloader.
LEMMA FreshDownloader ==
  ASSUME NEW d \in Devices, EntriesOK(d), NEW filter
  PROVE  LET dl == NewDownloader(d, filter) IN
         /\ dl.live /\ dl.filter = filter /\ dl.covers = drives[d] /\ dl.todo = entries[d]
         /\ dl.current = None /\ dl.queued = {}
  BY Fresh DEF NewDownloader

\* A filter that is put to use, of whatever device it is.
LEMMA HandledIntent ==
  ASSUME Types, NEW d \in Devices, DeviceOK(d), NEW e \in Devices, NEW filter \in Filters,
         HandleDownloadIntent(d, e, filter), e # d => link[d] # 0,
         UNCHANGED <<drives, entries, link>>
  PROVE  StreamsOK(d)'
<1> SUFFICES ASSUME NEW f \in Devices PROVE StreamOK(d, f)' /\ WantOK(d, f)'
  BY DEF StreamsOK
<1> USE DEF Types, DeviceOK
<1>1. CASE f = e
  <2>1. /\ streams'[d][f] = StreamFor(d, filter) /\ filters'[d][f] = filter
        /\ wants'[d][f] = WantOf(filter)
    BY <1>1 DEF HandleDownloadIntent
  <2>2. StreamOK(d, f)'
    BY <1>1, <2>1, FreshStream DEF StreamOK
  <2>3. wants'[d][f].everything <=> filters'[d][f] = "all"
    BY <2>1, FreshWant
  <2>4. ASSUME streams'[d][f].open
        PROVE  wants'[d][f].ranges = {} /\ streams'[d][f].todo = entries'[d]
    BY <2>1, <2>4, FreshStream, FreshWant
  <2> QED
    BY <2>2, <2>3, <2>4 DEF WantOK
<1>2. CASE f # e
  <2>1. UNCHANGED <<streams[d][f], filters[d][f], wants[d][f]>>
    BY <1>2 DEF HandleDownloadIntent
  <2> QED
    BY <2>1 DEF StreamsOK, StreamOK, WantOK
<1> QED
  BY <1>1, <1>2

LEMMA RestartStep ==
  ASSUME Types, NEW d \in Devices, DeviceOK(d), Restart(d)
  PROVE  DeviceOK(d)'
<1> USE DEF Types, DeviceOK
<1> DEFINE filter == FilterOf(archive[d])
<1>1. UNCHANGED <<archive, drives, entries, has>>
  BY DEF Restart, dataVars
<1>2. EntriesOK(d)'
  BY <1>1 DEF EntriesOK
<1>3. ASSUME NEW e \in Devices PROVE StreamOK(d, e)' /\ WantOK(d, e)'
  <2>1. /\ streams'[d][e] = IF e = d THEN StreamFor(d, filter) ELSE Closed
        /\ filters'[d][e] = IF e = d THEN filter ELSE "all"
        /\ wants'[d][e] = WantOf(IF e = d THEN filter ELSE "all")
    BY DEF Restart
  <2>2. ~ Closed.open /\ Closed.covers = {} /\ Closed.todo = {}
    BY DEF Closed
  <2> HIDE DEF filter
  <2>3. StreamOK(d, e)'
    BY <1>1, <2>1, <2>2, FreshStream DEF StreamOK
  <2>4. wants'[d][e].everything <=> filters'[d][e] = "all"
    BY <2>1, FreshWant
  <2>5. ASSUME streams'[d][e].open
        PROVE  wants'[d][e].ranges = {} /\ streams'[d][e].todo = entries'[d]
    BY <1>1, <2>1, <2>2, <2>5, FreshStream, FreshWant
  <2> QED
    BY <2>3, <2>4, <2>5 DEF WantOK
<1>4. DownloaderOK(d)'
  <2>1. downloader'[d] = NewDownloader(d, filter)
    BY DEF Restart
  <2> QED
    BY <1>1, <2>1, FreshDownloader DEF DownloaderOK
<1> QED
  BY <1>2, <1>3, <1>4 DEF StreamsOK

LEMMA PeerAddStep ==
  ASSUME Types, NEW d \in Devices, DeviceOK(d), PeerAdd(d)
  PROVE  DeviceOK(d)'
<1> USE DEF Types, DeviceOK
<1>1. UNCHANGED <<archive, drives, entries, has, filters, streams, downloader>> /\ link[d] = 0
  BY DEF PeerAdd, dataVars
<1>2. EntriesOK(d)' /\ DownloaderOK(d)'
  BY <1>1 DEF EntriesOK, DownloaderOK
<1>3. ASSUME NEW e \in Devices PROVE StreamOK(d, e)' /\ WantOK(d, e)'
  <2>1. StreamOK(d, e)'
    BY <1>1 DEF StreamsOK, StreamOK
  <2>2. CASE e = d
    <3>1. UNCHANGED wants[d][d]
      BY OtherIsOther DEF PeerAdd
    <3> QED
      BY <1>1, <2>1, <2>2, <3>1 DEF StreamsOK, WantOK
  <2>3. CASE e # d
    <3>1. ~ streams[d][e].open
      BY <1>1, <2>3 DEF StreamsOK, StreamOK
    <3>2. e = Other(d)
      BY <2>3, OtherIsOther, BlobStoreAssumption
    <3>3. wants'[d][e] = WantOf(filters[d][e])
      BY <3>2, OtherIsOther DEF PeerAdd
    <3>4. wants'[d][e].everything <=> filters'[d][e] = "all"
      BY <1>1, <3>3, FreshWant
    <3>5. ~ streams'[d][e].open
      BY <1>1, <3>1
    <3> QED
      BY <2>1, <3>4, <3>5 DEF WantOK
  <2> QED
    BY <2>1, <2>2, <2>3
<1> QED
  BY <1>2, <1>3 DEF StreamsOK

LEMMA PeerRemoveStep ==
  ASSUME Types, NEW d \in Devices, DeviceOK(d), PeerRemove(d)
  PROVE  DeviceOK(d)'
<1> USE DEF Types, DeviceOK
<1>1. UNCHANGED <<archive, drives, entries, has, filters, downloader>>
  BY DEF PeerRemove, dataVars
<1>2. EntriesOK(d)' /\ DownloaderOK(d)'
  BY <1>1 DEF EntriesOK, DownloaderOK
<1>3. ASSUME NEW e \in Devices PROVE StreamOK(d, e)' /\ WantOK(d, e)'
  <2>1. CASE e = d
    <3>1. UNCHANGED <<streams[d][d], wants[d][d]>>
      BY OtherIsOther DEF PeerRemove
    <3> QED
      BY <1>1, <2>1, <3>1 DEF StreamsOK, StreamOK, WantOK
  <2>2. CASE e # d
    <3>1. e = Other(d)
      BY <2>2, OtherIsOther, BlobStoreAssumption
    <3>2. streams'[d][e] = Closed /\ wants'[d][e] = WantOf(filters[d][e])
      BY <3>1, OtherIsOther DEF PeerRemove
    <3>3. ~ Closed.open /\ Closed.covers = {} /\ Closed.todo = {}
      BY DEF Closed
    <3>4. StreamOK(d, e)' /\ ~ streams'[d][e].open
      BY <3>2, <3>3 DEF StreamOK
    <3>5. wants'[d][e].everything <=> filters'[d][e] = "all"
      BY <1>1, <3>2, FreshWant
    <3> QED
      BY <3>4, <3>5 DEF WantOK
  <2> QED
    BY <2>1, <2>2
<1> QED
  BY <1>2, <1>3 DEF StreamsOK

LEMMA ReceiveIntentStep ==
  ASSUME Types, NEW d \in Devices, DeviceOK(d), NEW filter \in Filters, ReceiveIntent(d, filter)
  PROVE  DeviceOK(d)'
<1>1. UNCHANGED <<archive, drives, entries, has, downloader, link>> /\ link[d] # 0
  BY DEF ReceiveIntent, dataVars
<1>2. EntriesOK(d)' /\ DownloaderOK(d)'
  BY <1>1 DEF EntriesOK, DownloaderOK, DeviceOK
<1>3. StreamsOK(d)'
  BY <1>1, HandledIntent, OtherIsOther DEF ReceiveIntent
<1> QED
  BY <1>2, <1>3 DEF DeviceOK

LEMMA SetIsArchiveDeviceStep ==
  ASSUME Types, NEW d \in Devices, DeviceOK(d), SetIsArchiveDevice(d)
  PROVE  DeviceOK(d)'
<1> DEFINE filter == FilterOf(~ archive[d])
<1>1. UNCHANGED <<drives, entries, has, link>> /\ HandleDownloadIntent(d, d, filter)
  BY DEF SetIsArchiveDevice, dataVars
<1>2. EntriesOK(d)'
  BY <1>1 DEF EntriesOK, DeviceOK
<1>3. StreamsOK(d)'
  BY <1>1, HandledIntent, FilterType
<1>4. DownloaderOK(d)'
  <2>1. downloader'[d] = NewDownloader(d, filter) /\ FilterOf(archive'[d]) = filter
    BY ReplacedIsNew, FilterType DEF SetIsArchiveDevice, Types
  <2> QED
    BY <1>1, <2>1, FreshDownloader DEF DownloaderOK, DeviceOK
<1> QED
  BY <1>2, <1>3, <1>4 DEF DeviceOK

LEMMA NewEntryStep ==
  ASSUME Types, NEW d \in Devices, DeviceOK(d), NEW b \in Blobs, NewEntry(d, b),
         Owner[b] \in drives[d], has[d] \subseteq has'[d],
         UNCHANGED <<archive, drives, filters, wants, link>>
  PROVE  DeviceOK(d)'
<1> USE DEF Types, DeviceOK
<1>1. entries'[d] = entries[d] \cup {b}
  BY DEF NewEntry
<1>2. EntriesOK(d)'
  BY <1>1 DEF EntriesOK
<1>3. ASSUME NEW e \in Devices PROVE StreamOK(d, e)' /\ WantOK(d, e)'
  <2>1. streams'[d][e] = Yields(streams[d][e], b)
    BY DEF NewEntry
  <2>2. streams[d][e] \in Stream /\ StreamOK(d, e) /\ WantOK(d, e)
    BY DEF StreamsOK
  <2>3. /\ streams'[d][e].open = streams[d][e].open
        /\ streams'[d][e].filter = streams[d][e].filter
        /\ streams'[d][e].covers = streams[d][e].covers
        /\ streams'[d][e].todo = IF Owner[b] \in streams[d][e].covers
                                 THEN streams[d][e].todo \cup {b} ELSE streams[d][e].todo
    BY <2>1, <2>2 DEF Yields, Stream
  <2>4. StreamOK(d, e)'
    BY <1>1, <2>2, <2>3 DEF StreamOK
  <2>5. ASSUME streams[d][e].open PROVE streams'[d][e].todo = streams[d][e].todo \cup {b}
    BY <2>2, <2>3, <2>5 DEF StreamOK
  <2> QED
    BY <1>1, <2>2, <2>3, <2>4, <2>5 DEF WantOK
<1>4. DownloaderOK(d)'
  <2>1. downloader'[d] = IF downloader[d].live THEN Yields(downloader[d], b) ELSE downloader[d]
    BY DEF NewEntry
  <2>2. downloader[d] \in Downloader
    OBVIOUS
  <2>3. /\ downloader'[d].live = downloader[d].live
        /\ downloader'[d].filter = downloader[d].filter
        /\ downloader'[d].covers = downloader[d].covers
        /\ downloader'[d].current = downloader[d].current
        /\ downloader'[d].queued = downloader[d].queued
        /\ downloader[d].live => (Owner[b] \in downloader[d].covers =>
                                   downloader'[d].todo = downloader[d].todo \cup {b})
        /\ ~ downloader[d].live => downloader'[d].todo = downloader[d].todo
    BY <2>1, <2>2 DEF Yields, Downloader
  <2> QED
    BY <1>1, <2>3 DEF DownloaderOK
<1> QED
  BY <1>2, <1>3, <1>4 DEF StreamsOK

LEMMA AddDriveStep ==
  ASSUME Types, NEW d \in Devices, DeviceOK(d), AddDrive(d)
  PROVE  DeviceOK(d)'
<1> USE DEF Types, DeviceOK
<1> DEFINE new == Other(d)
<1>1. /\ drives'[d] = drives[d] \cup {new}
      /\ UNCHANGED <<archive, entries, has, filters, wants, link>>
  BY DEF AddDrive, linkVars
<1>2. EntriesOK(d)'
  BY <1>1 DEF EntriesOK
<1>3. ASSUME NEW e \in Devices PROVE StreamOK(d, e)' /\ WantOK(d, e)'
  <2>1. streams'[d][e] = IF streams[d][e].open THEN AddDriveTo(streams[d][e], new)
                         ELSE streams[d][e]
    BY DEF AddDrive
  <2>2. streams[d][e] \in Stream /\ StreamOK(d, e) /\ WantOK(d, e)
    BY DEF StreamsOK
  <2>3. /\ streams'[d][e].open = streams[d][e].open
        /\ streams'[d][e].filter = streams[d][e].filter
        /\ streams'[d][e].todo = streams[d][e].todo
        /\ streams[d][e].open => streams'[d][e].covers = streams[d][e].covers \cup {new}
    BY <2>1, <2>2 DEF AddDriveTo, Stream
  <2>4. CASE streams[d][e].open
    <3>1. StreamOK(d, e)'
      BY <1>1, <2>2, <2>3, <2>4 DEF StreamOK
    <3> QED
      BY <1>1, <2>2, <2>3, <3>1 DEF WantOK
  <2>5. CASE ~ streams[d][e].open
    <3>1. streams'[d][e] = streams[d][e]
      BY <2>1, <2>5
    <3> QED
      BY <1>1, <2>2, <2>5, <3>1 DEF StreamOK, WantOK
  <2> QED
    BY <2>4, <2>5
<1>4. DownloaderOK(d)'
  <2>1. downloader'[d] = IF downloader[d].live THEN AddDriveTo(downloader[d], new)
                         ELSE downloader[d]
    BY DEF AddDrive
  <2>2. downloader[d] \in Downloader
    OBVIOUS
  <2>3. /\ downloader'[d].live = downloader[d].live
        /\ downloader'[d].filter = downloader[d].filter
        /\ downloader'[d].todo = downloader[d].todo
        /\ downloader'[d].current = downloader[d].current
        /\ downloader'[d].queued = downloader[d].queued
        /\ downloader[d].live => downloader'[d].covers = downloader[d].covers \cup {new}
    BY <2>1, <2>2 DEF AddDriveTo, Downloader
  <2> QED
    BY <1>1, <2>3 DEF DownloaderOK
<1> QED
  BY <1>2, <1>3, <1>4 DEF StreamsOK

\* A range is wanted as soon as the stream has yielded it.
LEMMA YieldEntryStep ==
  ASSUME Types, NEW d \in Devices, DeviceOK(d), NEW e \in Devices, NEW b \in Blobs,
         YieldEntry(d, e, b)
  PROVE  DeviceOK(d)'
<1> USE DEF Types, DeviceOK
<1>1. UNCHANGED <<archive, drives, entries, has, filters, downloader, link>>
  BY DEF YieldEntry, dataVars, linkVars
<1>2. EntriesOK(d)' /\ DownloaderOK(d)'
  BY <1>1 DEF EntriesOK, DownloaderOK
<1>3. ASSUME NEW f \in Devices PROVE StreamOK(d, f)' /\ WantOK(d, f)'
  <2>1. CASE f # e
    <3>1. UNCHANGED <<streams[d][f], wants[d][f]>>
      BY <2>1 DEF YieldEntry
    <3> QED
      BY <1>1, <3>1 DEF StreamsOK, StreamOK, WantOK
  <2>2. CASE f = e
    <3> DEFINE s == streams[d][e]
               w == wants[d][e]
    <3>1. streams'[d][e] = Yielded(s, b) /\ wants'[d][e] = Wanted(w, b, s.filter) /\ b \in s.todo
      BY DEF YieldEntry
    <3>2. s \in Stream /\ w \in Want /\ StreamOK(d, e) /\ WantOK(d, e)
      BY DEF StreamsOK
    <3>3. s.open /\ s.filter = filters[d][e] /\ filters[d][e] # "all" /\ s.todo \subseteq entries[d]
      BY <3>1, <3>2 DEF StreamOK
    <3>4. /\ Yielded(s, b).open = s.open /\ Yielded(s, b).filter = s.filter
          /\ Yielded(s, b).covers = s.covers /\ Yielded(s, b).todo = s.todo \ {b}
      BY <3>2 DEF Yielded, Stream
    <3>5. StreamOK(d, e)'
      BY <1>1, <3>1, <3>2, <3>3, <3>4 DEF StreamOK
    <3>6. ~ w.everything
      BY <3>2, <3>3 DEF WantOK
    <3>7. CASE Matches(b, s.filter)
      <4>1. ~ Wanted(w, b, s.filter).everything /\ Wanted(w, b, s.filter).ranges = w.ranges \cup {b}
        BY <3>7 DEF Wanted
      <4> QED
        BY <1>1, <2>2, <3>1, <3>2, <3>3, <3>4, <3>5, <3>7, <4>1 DEF WantOK
    <3>8. CASE ~ Matches(b, s.filter)
      <4>1. Wanted(w, b, s.filter) = w
        BY <3>8 DEF Wanted
      <4> QED
        BY <1>1, <2>2, <3>1, <3>2, <3>3, <3>4, <3>5, <3>6, <3>8, <4>1 DEF WantOK
    <3> QED
      BY <3>7, <3>8
  <2> QED
    BY <2>1, <2>2
<1> QED
  BY <1>2, <1>3 DEF StreamsOK

\* The steps of the downloader move an entry on, or end everything.
LEMMA DownloaderStep ==
  ASSUME Types, NEW d \in Devices, DeviceOK(d),
         \/ TakeEntry(d) \/ ProcessEntry(d) \/ DownloaderFails(d)
         \/ \E b \in Blobs : Download(d, b)
  PROVE  DeviceOK(d)'
<1> USE DEF Types, DeviceOK
<1>1. /\ UNCHANGED <<archive, drives, entries, filters, streams, wants, link>>
      /\ has[d] \subseteq has'[d]
  BY DEF TakeEntry, ProcessEntry, DownloaderFails, Download, dataVars, linkVars
<1>2. EntriesOK(d)' /\ StreamsOK(d)'
  BY <1>1 DEF EntriesOK, StreamsOK, StreamOK, WantOK
<1> DEFINE dl == downloader[d]
<1>3. dl \in Downloader /\ DownloaderOK(d)
  OBVIOUS
<1>4. CASE TakeEntry(d)
  <2>1. PICK b \in dl.todo : downloader'[d] = Taken(dl, b)
    BY <1>4 DEF TakeEntry
  <2>2. dl.live /\ dl.current = None
    BY <1>3, <1>4, <2>1 DEF DownloaderOK, TakeEntry
  <2>3. /\ Taken(dl, b).live = dl.live /\ Taken(dl, b).filter = dl.filter
        /\ Taken(dl, b).covers = dl.covers /\ Taken(dl, b).todo = dl.todo \ {b}
        /\ Taken(dl, b).queued = dl.queued
        /\ Taken(dl, b).current = IF Matches(b, dl.filter) THEN b ELSE None
    BY <1>3 DEF Taken, Downloader
  <2>4. UNCHANGED <<archive[d], drives[d], entries[d], has[d]>>
    BY <1>4 DEF TakeEntry, dataVars
  <2>5. dl.filter = FilterOf(archive[d])
    BY <1>3, <2>2 DEF DownloaderOK
  <2> DEFINE new == downloader'[d]
  <2>6. /\ new.live /\ new.filter = FilterOf(archive'[d]) /\ new.covers = drives'[d]
        /\ new.current # None => Matches(new.current, FilterOf(archive'[d]))
        /\ \A c \in new.queued : Matches(c, FilterOf(archive'[d]))
    BY <1>3, <2>1, <2>2, <2>3, <2>4, <2>5 DEF DownloaderOK
  <2>7. ASSUME NEW c \in entries[d], Matches(c, FilterOf(archive[d]))
        PROVE  c \in has[d] \cup new.todo \cup new.queued \cup {new.current}
    <3>1. c \in has[d] \cup dl.todo \cup dl.queued \cup {dl.current}
      BY <1>3, <2>2, <2>7 DEF DownloaderOK
    <3>2. c # None
      BY BlobStoreAssumption
    <3> QED
      BY <2>1, <2>2, <2>3, <2>5, <2>7, <3>1, <3>2
  <2> HIDE DEF new
  <2>8. DownloaderOK(d)'
    BY <2>4, <2>6, <2>7 DEF DownloaderOK, new
  <2> QED
    BY <1>2, <2>8
<1>5. CASE ProcessEntry(d)
  <2> DEFINE new == Processed(dl, dl.current \in has[d])
  <2>1. downloader'[d] = new /\ dl.current # None
    BY <1>5 DEF ProcessEntry
  <2>2. dl.live
    BY <1>3, <2>1 DEF DownloaderOK
  <2>3. /\ new.live = dl.live /\ new.filter = dl.filter
        /\ new.covers = dl.covers /\ new.todo = dl.todo /\ new.current = None
        /\ new.queued = IF dl.current \in has[d] THEN dl.queued ELSE dl.queued \cup {dl.current}
    BY <1>3 DEF Processed, Downloader
  <2> HIDE DEF new
  <2> QED
    BY <1>1, <1>2, <1>3, <2>1, <2>2, <2>3 DEF DownloaderOK
<1>6. CASE \E b \in Blobs : Download(d, b)
  <2>1. PICK b \in dl.queued : downloader'[d] = Downloaded(dl, b) /\ b \in has'[d]
    BY <1>6 DEF Download
  <2>2. /\ Downloaded(dl, b).live = dl.live /\ Downloaded(dl, b).filter = dl.filter
        /\ Downloaded(dl, b).covers = dl.covers /\ Downloaded(dl, b).todo = dl.todo
        /\ Downloaded(dl, b).queued = dl.queued \ {b} /\ Downloaded(dl, b).current = dl.current
    BY <1>3 DEF Downloaded, Downloader
  <2> QED
    BY <1>1, <1>2, <1>3, <2>1, <2>2 DEF DownloaderOK
<1>7. CASE DownloaderFails(d)
  <2>1. downloader'[d] = Aborted(dl)
    BY <1>7 DEF DownloaderFails
  <2>2. /\ ~ Aborted(dl).live /\ Aborted(dl).todo = {}
        /\ Aborted(dl).current = None /\ Aborted(dl).queued = {}
    BY <1>3 DEF Aborted, Downloader
  <2> QED
    BY <1>2, <2>1, <2>2 DEF DownloaderOK
<1> QED
  BY <1>4, <1>5, <1>6, <1>7

----------------------------------------------------------------------------
(* The invariant *)

LEMMA InitIInv == Init => IInv
<1> SUFFICES ASSUME Init PROVE IInv
  OBVIOUS
<1> USE DEF Init
<1>1. \A d \in Devices : EntriesOK(d)
  BY DEF EntriesOK
<1>2. ASSUME NEW d \in Devices, NEW e \in Devices PROVE StreamOK(d, e) /\ WantOK(d, e)
  <2>1. ~ Closed.open /\ Closed.covers = {} /\ Closed.todo = {}
    BY DEF Closed
  <2>2. StreamOK(d, e)
    BY <1>1, <2>1, FreshStream DEF StreamOK
  <2>3. wants[d][e].everything <=> filters[d][e] = "all"
    BY FreshWant
  <2>4. WantOf(filters[d][e]).ranges = {}
    BY FreshWant
  <2> QED
    BY <2>2, <2>3, <2>4 DEF WantOK
<1>3. ASSUME NEW d \in Devices PROVE DownloaderOK(d)
  <2>1. downloader[d] = NewDownloader(d, FilterOf(archive[d]))
    OBVIOUS
  <2>2. EntriesOK(d) /\ entries[d] = {}
    BY <1>1
  <2> QED
    BY <2>1, <2>2, FreshDownloader DEF DownloaderOK
<1>4. Types
  <2>1. \A x : FilterOf(x) \in Filters /\ "all" \in Filters
    BY DEF FilterOf, Filters
  <2>2. filters \in [Devices -> [Devices -> Filters]]
    BY <2>1
  <2>3. archive \in [Devices -> BOOLEAN] /\ drives \in [Devices -> SUBSET Devices]
        /\ entries \in [Devices -> SUBSET Blobs] /\ has \in [Devices -> SUBSET Blobs]
        /\ link \in [Devices -> 0 .. MaxConns]
    BY BlobStoreAssumption
  <2>4. \A d \in Devices, filter \in Filters :
          /\ StreamFor(d, filter) \in Stream /\ NewDownloader(d, filter) \in Downloader
          /\ WantOf(filter) \in Want
    <3>1. \A d \in Devices : drives[d] \subseteq Devices /\ EntriesIn(d, drives[d]) \subseteq Blobs
      BY DEF EntriesIn
    <3> HIDE DEF Init
    <3> QED
      BY <3>1 DEF NewStream, StreamFor, Closed, Stream, NewDownloader, Downloader, WantOf, Want, Filters
  <2>5. Closed \in Stream
    BY DEF Closed, Stream, Filters
  <2>6. streams \in [Devices -> [Devices -> Stream]]
    BY <2>1, <2>4, <2>5
  <2>7. wants \in [Devices -> [Devices -> Want]]
    BY <2>2, <2>4
  <2>8. downloader \in [Devices -> Downloader]
    BY <2>1, <2>4
  <2> QED
    BY <2>2, <2>3, <2>6, <2>7, <2>8 DEF Types
<1> HIDE DEF Init
<1> QED
  BY <1>1, <1>2, <1>3, <1>4 DEF IInv, DeviceOK, StreamsOK

\* What is invariant depends on one device.
State(d) == <<archive[d], drives[d], entries[d], has[d], filters[d], streams[d], wants[d],
              downloader[d], link[d]>>

LEMMA OthersUntouched ==
  ASSUME NEW d \in Devices, DeviceOK(d), UNCHANGED State(d)
  PROVE  DeviceOK(d)'
  BY DEF State, DeviceOK, EntriesOK, StreamsOK, StreamOK, WantOK, DownloaderOK

LEMMA NextIInv == IInv /\ [Next]_vars => IInv'
<1> SUFFICES ASSUME IInv, [Next]_vars, NEW x \in Devices PROVE DeviceOK(x)'
  BY TypesStep DEF IInv
<1>1. Types /\ DeviceOK(x)
  BY DEF IInv
<1>2. ASSUME NEW d \in Devices, d # x,
             \/ Restart(d) \/ PeerAdd(d) \/ PeerRemove(d)
             \/ \E filter \in Filters : ReceiveIntent(d, filter)
             \/ SetIsArchiveDevice(d) \/ AddDrive(d)
             \/ TakeEntry(d) \/ ProcessEntry(d) \/ DownloaderFails(d)
             \/ \E b \in Blobs :
                  ReplicateEntry(d, b) \/ Download(d, b) \/ \E e \in Devices : YieldEntry(d, e, b)
      PROVE  UNCHANGED State(x)
  <2> USE <1>1, <1>2 DEF State, Types, dataVars, linkVars
  <2>1. CASE Restart(d) \/ PeerAdd(d) \/ PeerRemove(d)
    BY <2>1 DEF Restart, PeerAdd, PeerRemove
  <2>2. CASE SetIsArchiveDevice(d) \/ \E filter \in Filters : ReceiveIntent(d, filter)
    BY <2>2 DEF ReceiveIntent, SetIsArchiveDevice, HandleDownloadIntent
  <2>3. CASE AddDrive(d) \/ TakeEntry(d) \/ ProcessEntry(d) \/ DownloaderFails(d)
    BY <2>3 DEF AddDrive, TakeEntry, ProcessEntry, DownloaderFails
  <2>4. CASE \E b \in Blobs :
               ReplicateEntry(d, b) \/ Download(d, b) \/ \E e \in Devices : YieldEntry(d, e, b)
    BY <2>4 DEF ReplicateEntry, NewEntry, Download, YieldEntry
  <2> QED
    BY <2>1, <2>2, <2>3, <2>4
<1>3. ASSUME Restart(x) \/ PeerAdd(x) \/ PeerRemove(x)
             \/ (\E filter \in Filters : ReceiveIntent(x, filter))
             \/ SetIsArchiveDevice(x) \/ AddDrive(x)
      PROVE  DeviceOK(x)'
  BY <1>1, <1>3, RestartStep, PeerAddStep, PeerRemoveStep, ReceiveIntentStep,
     SetIsArchiveDeviceStep, AddDriveStep
<1>4. ASSUME TakeEntry(x) \/ ProcessEntry(x) \/ DownloaderFails(x)
             \/ (\E b \in Blobs : Download(x, b) \/ \E e \in Devices : YieldEntry(x, e, b))
      PROVE  DeviceOK(x)'
  BY <1>1, <1>4, DownloaderStep, YieldEntryStep
<1>5. ASSUME NEW b \in Blobs, ReplicateEntry(x, b) PROVE DeviceOK(x)'
  BY <1>1, <1>5, NewEntryStep DEF ReplicateEntry, linkVars
<1>6. ASSUME NEW b \in Blobs, Put(b) PROVE DeviceOK(x)'
  <2>1. CASE Owner[b] = x
    <3>1. /\ NewEntry(x, b) /\ has[x] \subseteq has'[x]
          /\ UNCHANGED <<archive, drives, filters, wants, link>>
      BY <1>1, <1>6, <2>1 DEF Put, linkVars, Types
    <3>2. Owner[b] \in drives[x]
      BY <1>1, <2>1 DEF DeviceOK, EntriesOK
    <3> QED
      BY <1>1, <3>1, <3>2, NewEntryStep
  <2>2. CASE Owner[b] # x
    <3>1. UNCHANGED State(x)
      BY <1>1, <1>6, <2>2, BlobStoreAssumption DEF Put, NewEntry, State, Types, linkVars
    <3> QED
      BY <1>1, <3>1, OthersUntouched
  <2> QED
    BY <2>1, <2>2
<1>7. ASSUME UNCHANGED vars PROVE UNCHANGED State(x)
  BY <1>7 DEF vars, State
<1> QED
  BY <1>1, <1>2, <1>3, <1>4, <1>5, <1>6, <1>7, OthersUntouched DEF Next

LEMMA AlwaysIInv == Spec => []IInv
  BY InitIInv, NextIInv, PTL DEF Spec

----------------------------------------------------------------------------
(* The theorems *)

\* The ranges that the sync state takes a device to want are those of its
\* filter (#handleDownloadIntent).
THEOREM WantsFollow == Spec => []WantsFollowEntries
<1>1. IInv => WantsFollowEntries
  BY DEF IInv, DeviceOK, StreamsOK, WantOK, WantsFollowEntries
<1> QED
  BY <1>1, AlwaysIInv, PTL

\* No blob is overlooked by a downloader that has not failed.
THEOREM NothingIsForgotten == Spec => []NoneForgotten
<1>1. IInv => NoneForgotten
  BY DEF IInv, DeviceOK, DownloaderOK, NoneForgotten
<1> QED
  BY <1>1, AlwaysIInv, PTL

\* setIsArchiveDevice ends what is under way for the old filter.
THEOREM OnlyWantedDownloads == Spec => NoUnwantedDownload
<1> DEFINE A == \A d \in Devices : \A b \in has'[d] \ has[d] :
                  Owner[b] = d \/ Matches(b, FilterOf(archive[d]))
<1>1. ASSUME IInv, [Next]_vars PROVE A
  <2>1. SUFFICES ASSUME NEW d \in Devices, NEW b \in has'[d] \ has[d]
                 PROVE  Owner[b] = d \/ Matches(b, FilterOf(archive[d]))
    OBVIOUS
  <2>2. Types /\ DownloaderOK(d)
    BY <1>1 DEF IInv, DeviceOK
  <2>3. ASSUME NEW c \in Blobs, Put(c) PROVE Owner[b] = d
    BY <2>2, <2>3, BlobStoreAssumption DEF Put, Types
  <2>4. ASSUME NEW x \in Devices, NEW c \in Blobs, Download(x, c)
        PROVE  Matches(b, FilterOf(archive[d]))
    <3>1. x = d /\ b = c /\ b \in downloader[d].queued
      BY <2>2, <2>4 DEF Download, Types
    <3> QED
      BY <2>2, <3>1 DEF DownloaderOK
  <2>5. has' # has
    BY <2>1
  <2>6. ASSUME NEW x \in Devices, Restart(x) \/ PeerAdd(x) \/ PeerRemove(x)
               \/ (\E filter \in Filters : ReceiveIntent(x, filter))
               \/ SetIsArchiveDevice(x) \/ AddDrive(x)
               \/ TakeEntry(x) \/ ProcessEntry(x) \/ DownloaderFails(x)
               \/ (\E c \in Blobs : ReplicateEntry(x, c) \/ \E e \in Devices : YieldEntry(x, e, c))
        PROVE  UNCHANGED has
    BY <2>6 DEF Restart, PeerAdd, PeerRemove, ReceiveIntent, SetIsArchiveDevice, AddDrive,
                TakeEntry, ProcessEntry, DownloaderFails, ReplicateEntry, YieldEntry, dataVars
  <2>7. ~ UNCHANGED vars
    BY <2>5 DEF vars
  <2> QED
    BY <1>1, <2>3, <2>4, <2>5, <2>6, <2>7 DEF Next
<1>2. IInv /\ [Next]_vars => [A]_vars
  BY <1>1
<1> QED
  BY <1>2, AlwaysIInv, PTL DEF Spec, NoUnwantedDownload

----------------------------------------------------------------------------
(* Intents on their way *)

LinkTypes ==
  /\ link \in [Devices -> 0 .. MaxConns] /\ used \in [Devices -> 0 .. MaxConns]
  /\ chan \in [Devices -> Seq([conn : 1 .. MaxConns, filter : Filters])]

\* A device on a connection that the other has not left: as long as the other is not on
\* it, the intent waits; once it is, it waits or was received.
LinkOK(d, e) ==
  /\ link[d] \in {0, used[d]}
  /\ link[d] # 0 =>
       /\ used[e] < link[d] => chan[d] # <<>>
       /\ used[e] < link[d] \/ link[e] = link[d] =>
            IF chan[d] = <<>> THEN filters[e][d] = FilterOf(archive[d])
            ELSE chan[d][Len(chan[d])] = [conn |-> link[d], filter |-> FilterOf(archive[d])]

LinksOK == LinkTypes /\ \A d \in Devices : LinkOK(d, Other(d))

\* What LinkOK(d, e) depends on.
LinkState(d, e) ==
  <<link[d], used[d], link[e], used[e], chan[d], filters[e][d], archive[d]>>

LEMMA TwoDevices ==
  ASSUME NEW d \in Devices
  PROVE  /\ Other(d) \in Devices /\ Other(d) # d /\ Other(Other(d)) = d
         /\ \A x \in Devices : x = d \/ x = Other(d)
<1>1. Other(d) \in Devices /\ Other(d) # d
  BY OtherIsOther
<1>2. Other(Other(d)) \in Devices /\ Other(Other(d)) # Other(d)
  BY <1>1, OtherIsOther
<1> QED
  BY <1>1, <1>2, BlobStoreAssumption

LEMMA AppendLast ==
  ASSUME NEW S, NEW q \in Seq(S), NEW m \in S
  PROVE  /\ Append(q, m) \in Seq(S) /\ Append(q, m) # <<>>
         /\ Append(q, m)[Len(Append(q, m))] = m
  OBVIOUS

LEMMA SuffixType ==
  ASSUME NEW S, NEW q \in Seq(S), NEW n \in 0 .. Len(q)
  PROVE  SubSeq(q, n + 1, Len(q)) \in Seq(S)
<1>1. \A i \in n + 1 .. Len(q) : q[i] \in S
  OBVIOUS
<1>2. n + 1 \in 1 .. Len(q) + 1 /\ Len(q) \in Nat
  OBVIOUS
<1> QED
  BY <1>1, <1>2, SubSeqProperties

\* A sequence keeps its last element when a part before it is dropped.
LEMMA SuffixLast ==
  ASSUME NEW S, NEW q \in Seq(S), NEW n \in 0 .. Len(q), n < Len(q)
  PROVE  /\ SubSeq(q, n + 1, Len(q)) \in Seq(S) /\ SubSeq(q, n + 1, Len(q)) # <<>>
         /\ SubSeq(q, n + 1, Len(q))[Len(SubSeq(q, n + 1, Len(q)))] = q[Len(q)]
<1> DEFINE t == SubSeq(q, n + 1, Len(q))
<1>1. /\ t \in Seq(S) /\ Len(t) = Len(q) - n
      /\ \A i \in 1 .. Len(q) - n : t[i] = q[n + i]
  OBVIOUS
<1>2. Len(q) - n \in 1 .. Len(q) - n /\ n + (Len(q) - n) = Len(q)
  OBVIOUS
<1> HIDE DEF t
<1>3. t # <<>> /\ t[Len(t)] = q[Len(q)]
  BY <1>1, <1>2
<1> QED
  BY <1>1, <1>3 DEF t

LEMMA TailLast ==
  ASSUME NEW S, NEW q \in Seq(S), q # <<>>
  PROVE  /\ Tail(q) \in Seq(S) /\ Head(q) = q[1]
         /\ Tail(q) = <<>> => q[Len(q)] = Head(q)
         /\ Tail(q) # <<>> => Tail(q)[Len(Tail(q))] = q[Len(q)]
<1> DEFINE t == Tail(q)
<1>1. /\ t \in Seq(S) /\ Head(q) = q[1] /\ Len(q) \in Nat /\ Len(q) >= 1
      /\ Len(t) = Len(q) - 1
      /\ \A i \in 1 .. Len(q) - 1 : t[i] = q[i + 1]
  OBVIOUS
<1> HIDE DEF t
<1>2. /\ t \in Seq(S) /\ Head(q) = q[1]
      /\ t = <<>> => q[Len(q)] = Head(q)
      /\ t # <<>> => t[Len(t)] = q[Len(q)]
  <2>1. CASE Len(q) = 1
    <3>1. Len(t) = 0
      BY <1>1, <2>1
    <3>2. t = <<>>
      BY <1>1, <3>1
    <3> QED
      BY <1>1, <2>1, <3>2
  <2>2. CASE Len(q) > 1
    <3>1. Len(q) - 1 \in 1 .. Len(q) - 1 /\ (Len(q) - 1) + 1 = Len(q)
      BY <1>1, <2>2
    <3>2. t[Len(q) - 1] = q[Len(q)]
      BY <1>1, <3>1
    <3>3. t # <<>>
      BY <1>1, <2>2
    <3> QED
      BY <1>1, <3>2, <3>3
  <2> QED
    BY <1>1, <2>1, <2>2
<1> QED
  BY <1>2 DEF t

LEMMA LinkUntouched ==
  ASSUME NEW d \in Devices, NEW e \in Devices, LinkOK(d, e), UNCHANGED LinkState(d, e)
  PROVE  LinkOK(d, e)'
  BY DEF LinkOK, LinkState

LEMMA LinkInit == Init => LinksOK
<1> SUFFICES ASSUME Init PROVE LinksOK
  OBVIOUS
<1>1. LinkTypes
  BY BlobStoreAssumption DEF Init, LinkTypes
<1>2. \A d \in Devices : LinkOK(d, Other(d))
  BY OtherIsOther DEF Init, LinkOK
<1> QED
  BY <1>1, <1>2 DEF LinksOK

LEMMA LinkPeerAdd ==
  ASSUME IInv, LinksOK, NEW d \in Devices, PeerAdd(d) PROVE LinksOK'
<1> DEFINE e == Other(d)
           q == chan[e]
           M == [conn : 1 .. MaxConns, filter : Filters]
<1>1. e \in Devices /\ e # d /\ Other(e) = d /\ \A x \in Devices : x = d \/ x = e
  BY TwoDevices
<1>2. LinkTypes /\ LinkOK(d, e) /\ LinkOK(e, d)
  BY <1>1 DEF LinksOK
<1>3. PICK k \in NextConns(d), n \in 0 .. Len(q) :
        /\ link' = [link EXCEPT ![d] = k] /\ used' = [used EXCEPT ![d] = k]
        /\ Lost(q, k, n)
        /\ chan' = [chan EXCEPT ![d] = Sent(d, k, FilterOf(archive[d])),
                                ![e] = SubSeq(@, n + 1, Len(@))]
  BY DEF PeerAdd
<1>4. k \in 1 .. MaxConns /\ k > used[d] /\ k >= used[e] /\ used[d] \in Nat /\ used[e] \in Nat
  BY <1>1, <1>2, <1>3 DEF NextConns, LinkTypes
<1>5. UNCHANGED <<archive, filters>>
  BY DEF PeerAdd
<1> DEFINE m == [conn |-> k, filter |-> FilterOf(archive[d])]
<1>6. q \in Seq(M) /\ chan[d] \in Seq(M) /\ m \in M
  BY <1>1, <1>2, <1>4, FilterType DEF LinkTypes
<1>7. chan'[d] = Append(chan[d], m) /\ chan'[e] = SubSeq(q, n + 1, Len(q))
  BY <1>1, <1>2, <1>3 DEF LinkTypes, Sent
<1> HIDE DEF m, q, M
<1>8. chan'[e] \in Seq(M)
  BY <1>3, <1>6, <1>7, SuffixType
<1>9. chan'[d] \in Seq(M) /\ chan'[d] # <<>> /\ chan'[d][Len(chan'[d])] = m
  BY <1>6, <1>7, AppendLast
<1> USE DEF m, q, M
<1>10. link'[d] = k /\ used'[d] = k /\ link'[e] = link[e] /\ used'[e] = used[e]
  BY <1>1, <1>2, <1>3 DEF LinkTypes
<1>11. LinkTypes'
  BY <1>1, <1>2, <1>3, <1>4, <1>8, <1>9 DEF LinkTypes
<1>12. LinkOK(d, e)'
  BY <1>5, <1>9, <1>10 DEF LinkOK
<1>13. LinkOK(e, d)'
  <2>1. CASE link[e] = k
    <3>1. used[d] < link[e] /\ link[e] # 0
      BY <1>4, <2>1
    <3>2. q # <<>> /\ q[Len(q)] = [conn |-> k, filter |-> FilterOf(archive[e])]
      BY <1>2, <2>1, <3>1 DEF LinkOK
    <3>3. n < Len(q)
      <4>1. Len(q) \in DOMAIN q /\ Len(q) \in Nat
        BY <1>6, <3>2
      <4> QED
        BY <1>3, <1>4, <3>2, <4>1 DEF Lost
    <3>4. chan'[e] # <<>> /\ chan'[e][Len(chan'[e])] = q[Len(q)]
      <4> HIDE DEF q, M
      <4> QED
        BY <1>3, <1>6, <1>7, <3>3, SuffixLast
    <3> QED
      BY <1>2, <1>5, <1>10, <2>1, <3>2, <3>4 DEF LinkOK
  <2>2. CASE link[e] # k
    <3>1. link[e] <= used[e] /\ link[e] \in Nat
      BY <1>1, <1>2 DEF LinkOK, LinkTypes
    <3> QED
      BY <1>2, <1>4, <1>10, <2>2, <3>1 DEF LinkOK
  <2> QED
    BY <2>1, <2>2
<1> QED
  BY <1>1, <1>11, <1>12, <1>13 DEF LinksOK

LEMMA LinkReceiveIntent ==
  ASSUME IInv, LinksOK, NEW d \in Devices, NEW filter \in Filters, ReceiveIntent(d, filter)
  PROVE  LinksOK'
<1> DEFINE e == Other(d)
           q == chan[e]
           M == [conn : 1 .. MaxConns, filter : Filters]
<1>1. e \in Devices /\ e # d /\ Other(e) = d /\ \A x \in Devices : x = d \/ x = e
  BY TwoDevices
<1>2. LinkTypes /\ LinkOK(d, e) /\ LinkOK(e, d) /\ Types
  BY <1>1 DEF LinksOK, IInv
<1>3. /\ link[d] # 0 /\ q # <<>> /\ Head(q) = [conn |-> link[d], filter |-> filter]
      /\ filters' = [filters EXCEPT ![d][e] = filter]
      /\ chan' = [chan EXCEPT ![e] = Tail(@)]
      /\ UNCHANGED <<archive, link, used>>
  BY DEF ReceiveIntent, HandleDownloadIntent
<1>4. q \in Seq(M)
  BY <1>1, <1>2 DEF LinkTypes
<1>5. /\ chan'[e] = Tail(q) /\ chan'[d] = chan[d]
      /\ filters'[d][e] = filter /\ filters'[e][d] = filters[e][d]
  BY <1>1, <1>2, <1>3 DEF LinkTypes, Types
<1>6. /\ Tail(q) \in Seq(M)
      /\ Tail(q) = <<>> => q[Len(q)] = Head(q)
      /\ Tail(q) # <<>> => Tail(q)[Len(Tail(q))] = q[Len(q)]
  BY <1>3, <1>4, TailLast
<1>7. LinkTypes'
  BY <1>1, <1>2, <1>3, <1>6 DEF LinkTypes
<1>8. LinkOK(d, e)'
  BY <1>1, <1>2, <1>3, <1>5, LinkUntouched DEF LinkState
<1>9. LinkOK(e, d)'
  <2>1. CASE Tail(q) # <<>>
    BY <1>2, <1>3, <1>5, <1>6, <2>1 DEF LinkOK
  <2>2. CASE Tail(q) = <<>>
    <3>1. link[d] = used[d] /\ used[d] \in Nat /\ link[e] \in Nat
      BY <1>1, <1>2, <1>3 DEF LinkOK, LinkTypes
    <3>2. ASSUME link[e] # 0, used[d] < link[e] PROVE FALSE
      BY <1>2, <1>3, <1>6, <2>2, <3>1, <3>2 DEF LinkOK
    <3>3. ASSUME link[e] # 0, link[d] = link[e] PROVE filter = FilterOf(archive[e])
      BY <1>2, <1>3, <1>6, <2>2, <3>3 DEF LinkOK
    <3> QED
      BY <1>2, <1>3, <1>5, <2>2, <3>2, <3>3 DEF LinkOK
  <2> QED
    BY <2>1, <2>2
<1> QED
  BY <1>1, <1>7, <1>8, <1>9 DEF LinksOK

LEMMA LinkSetIsArchiveDevice ==
  ASSUME IInv, LinksOK, NEW d \in Devices, SetIsArchiveDevice(d) PROVE LinksOK'
<1> DEFINE e == Other(d)
           M == [conn : 1 .. MaxConns, filter : Filters]
           m == [conn |-> link[d], filter |-> FilterOf(archive'[d])]
<1>1. e \in Devices /\ e # d /\ Other(e) = d /\ \A x \in Devices : x = d \/ x = e
  BY TwoDevices
<1>2. LinkTypes /\ LinkOK(d, e) /\ LinkOK(e, d) /\ Types
  BY <1>1 DEF LinksOK, IInv
<1>3. /\ archive' = [archive EXCEPT ![d] = ~ @]
      /\ chan' = [chan EXCEPT ![d] =
                    IF link[d] # 0 THEN Sent(d, link[d], FilterOf(~ archive[d])) ELSE @]
      /\ filters' = [filters EXCEPT ![d][d] = FilterOf(~ archive[d])]
      /\ UNCHANGED <<link, used>>
  BY DEF SetIsArchiveDevice, HandleDownloadIntent
<1>4. archive'[d] = ~ archive[d] /\ archive'[e] = archive[e]
  BY <1>1, <1>2, <1>3 DEF Types
<1>5. filters'[d][e] = filters[d][e] /\ filters'[e][d] = filters[e][d]
  BY <1>1, <1>2, <1>3 DEF Types
<1>6. chan[d] \in Seq(M) /\ (link[d] # 0 => m \in M)
  <2>1. FilterOf(archive'[d]) \in Filters
    BY FilterType
  <2>2. link[d] \in 0 .. MaxConns /\ MaxConns \in Nat /\ chan[d] \in Seq(M)
    BY <1>2, BlobStoreAssumption DEF LinkTypes
  <2> QED
    BY <2>1, <2>2
<1>7. /\ chan'[e] = chan[e]
      /\ chan'[d] = IF link[d] # 0 THEN Append(chan[d], m) ELSE chan[d]
  BY <1>1, <1>2, <1>3, <1>4 DEF LinkTypes, Sent
<1> HIDE DEF m, M
<1>8. /\ chan'[d] \in Seq(M)
      /\ link[d] # 0 => chan'[d] # <<>> /\ chan'[d][Len(chan'[d])] = m
  BY <1>6, <1>7, AppendLast
<1> USE DEF m, M
<1>9. LinkTypes'
  BY <1>1, <1>2, <1>3, <1>8 DEF LinkTypes
<1>10. LinkOK(d, e)'
  BY <1>2, <1>3, <1>8 DEF LinkOK
<1>11. LinkOK(e, d)'
  BY <1>1, <1>2, <1>3, <1>4, <1>5, <1>7, LinkUntouched DEF LinkState
<1> QED
  BY <1>1, <1>9, <1>10, <1>11 DEF LinksOK

\* A device that leaves its connection, or restarts, is on none.
LEMMA LinkGone ==
  ASSUME IInv, LinksOK, NEW d \in Devices, Restart(d) \/ PeerRemove(d) PROVE LinksOK'
<1> DEFINE e == Other(d)
<1>1. e \in Devices /\ e # d /\ Other(e) = d /\ \A x \in Devices : x = d \/ x = e
  BY TwoDevices
<1>2. LinkTypes /\ LinkOK(d, e) /\ LinkOK(e, d) /\ Types
  BY <1>1 DEF LinksOK, IInv
<1>3. /\ link' = [link EXCEPT ![d] = 0]
      /\ UNCHANGED <<archive, used, chan>>
  BY DEF Restart, PeerRemove
<1>4. link'[d] = 0 /\ link'[e] = link[e]
  BY <1>1, <1>2, <1>3 DEF LinkTypes
<1>5. LinkTypes'
  BY <1>2, <1>3, BlobStoreAssumption DEF LinkTypes
<1>6. LinkOK(d, e)' /\ LinkOK(e, d)'
  BY <1>2, <1>3, <1>4 DEF LinkOK
<1> QED
  BY <1>1, <1>5, <1>6 DEF LinksOK

LEMMA LinkNext == IInv /\ LinksOK /\ [Next]_vars => LinksOK'
<1> SUFFICES ASSUME IInv, LinksOK, [Next]_vars PROVE LinksOK'
  OBVIOUS
<1> DEFINE Same == UNCHANGED <<link, used, chan, filters, archive>>
<1>1. ASSUME NEW d \in Devices,
             AddDrive(d) \/ TakeEntry(d) \/ ProcessEntry(d) \/ DownloaderFails(d)
      PROVE  Same
  BY <1>1 DEF AddDrive, TakeEntry, ProcessEntry, DownloaderFails, linkVars
<1>2. ASSUME NEW d \in Devices, NEW b \in Blobs,
             ReplicateEntry(d, b) \/ Download(d, b) \/ \E e \in Devices : YieldEntry(d, e, b)
      PROVE  Same
  BY <1>2 DEF ReplicateEntry, Download, YieldEntry, linkVars
<1>3. ASSUME NEW b \in Blobs, Put(b) PROVE Same
  BY <1>3 DEF Put, linkVars
<1>4. ASSUME UNCHANGED vars PROVE Same
  BY <1>4 DEF vars
<1>5. ASSUME Same PROVE LinksOK'
  BY <1>5, LinkUntouched, OtherIsOther DEF LinksOK, LinkTypes, LinkState
<1> QED
  BY <1>1, <1>2, <1>3, <1>4, <1>5, LinkPeerAdd, LinkReceiveIntent, LinkSetIsArchiveDevice,
     LinkGone DEF Next

\* Two connected devices know each other's filter or are about to, however
\* connections, restarts and changes of the setting come (sendDownloadIntents).
THEOREM IntentsAreCurrent == Spec => []IntentsCurrent
<1>1. LinksOK => IntentsCurrent
  BY DEF LinksOK, LinkOK, IntentsCurrent, Connected
<1> QED
  BY <1>1, LinkInit, LinkNext, AlwaysIInv, PTL DEF Spec

Counters == switches \in [Devices -> Nat] /\ restarts \in 0 .. MaxRestarts

LEMMA CountersStep == Counters /\ [Next]_vars => Counters'
<1> SUFFICES ASSUME Counters, [Next]_vars PROVE Counters'
  OBVIOUS
<1> USE BlobStoreAssumption DEF Counters
<1>1. ASSUME NEW d \in Devices, Restart(d) PROVE Counters'
  BY <1>1 DEF Restart
<1>2. ASSUME NEW d \in Devices, SetIsArchiveDevice(d) PROVE Counters'
  BY <1>2 DEF SetIsArchiveDevice
<1>3. ASSUME NEW d \in Devices,
             \/ PeerAdd(d) \/ PeerRemove(d) \/ AddDrive(d)
             \/ \E filter \in Filters : ReceiveIntent(d, filter)
             \/ TakeEntry(d) \/ ProcessEntry(d) \/ DownloaderFails(d)
      PROVE  Counters'
  BY <1>3 DEF PeerAdd, PeerRemove, AddDrive, ReceiveIntent, TakeEntry, ProcessEntry, DownloaderFails
<1>4. ASSUME NEW d \in Devices, NEW b \in Blobs,
             ReplicateEntry(d, b) \/ Download(d, b) \/ \E e \in Devices : YieldEntry(d, e, b)
      PROVE  Counters'
  BY <1>4 DEF ReplicateEntry, Download, YieldEntry
<1>5. ASSUME NEW b \in Blobs, Put(b) PROVE Counters'
  BY <1>5 DEF Put
<1>6. CASE UNCHANGED vars
  BY <1>6 DEF vars
<1> QED
  BY <1>1, <1>2, <1>3, <1>4, <1>5, <1>6 DEF Next

\* Every variable holds a value of its kind: filters, streams, wants and downloads name devices
\* and blobs there are, and messages are of connections that there were.
THEOREM TypeCorrect == Spec => []TypeOK
<1>1. Init => Counters
  BY BlobStoreAssumption DEF Init, Counters
<1>2. IInv /\ LinksOK /\ Counters => TypeOK
  BY DEF IInv, Types, LinksOK, LinkTypes, Counters, TypeOK
<1> QED
  BY <1>1, <1>2, CountersStep, LinkInit, LinkNext, AlwaysIInv, PTL DEF Spec

=============================================================================
