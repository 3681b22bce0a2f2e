---------------------------- MODULE ImageService ----------------------------
(***************************************************************************)
(* ImageService: pictures for the rows of a table, from memory, from the   *)
(* caches directory, or from the network.  The dictionary `images` belongs *)
(* to the main thread.  A download ends on a thread of the URL session,    *)
(* which hands the picture to the main thread, writes the file itself, and *)
(* then asks the main thread to reload the row.  A picture stands for the  *)
(* URL it came from, so a wrong picture can be told from the right one.    *)
(* The table and its data are outside the service (external).              *)
(***************************************************************************)
EXTENDS Naturals, Sequences

CONSTANTS
  Urls,         \* photo URLs
  NoImage,      \* nil
  Names,        \* file names in the caches directory
  FileName,     \* the last path component of each URL
  Rows,         \* index paths
  Loads,        \* the downloads that may be in flight at a time (a bound)
  Idle,         \* no download
  MaxQueue      \* blocks that may wait for the main thread (a bound)

ASSUME ImageAssumption ==
  /\ NoImage \notin Urls
  /\ FileName \in [Urls -> Names]
  /\ Idle \notin [row : Rows, url : Urls, step : {"net", "save", "reload"}]
  /\ MaxQueue \in Nat \ {0}

VARIABLES
  images,       \* ImageService.images
  files,        \* the caches directory: pictures not older than cacheLifeTime
  loads,        \* the downloads and how far each has come
  main,         \* blocks waiting on DispatchQueue.main, first in first out
  rowUrl,       \* the URL that the table's data holds for each row
  shown,        \* the picture each row was last configured with
  service       \* "alive", "released" by its owner, or "dead" with the process

vars == <<images, files, loads, main, rowUrl, shown, service>>

alive == service = "alive"

Blocks == [kind : {"set"}, url : Urls, image : Urls]
            \cup [kind : {"reload"}, row : Rows, url : Urls]

Init ==
  /\ images = [u \in Urls |-> NoImage]
  /\ files = [n \in Names |-> NoImage]
  /\ loads = [l \in Loads |-> Idle]
  /\ main = <<>>
  /\ rowUrl \in [Rows -> Urls]
  /\ shown = [r \in Rows |-> NoImage]
  /\ service = "alive"

-----------------------------------------------------------------------------
(* photo(atIndexpath:byUrl:), on the main thread.  `blocks` is what the    *)
(* main queue holds when it is called.                                     *)

\* nil when there is no file, or it is older than cacheLifeTime
CachedImage(u) == files[FileName[u]]

FromMemory(r, blocks) ==
  LET u == rowUrl[r] IN
    /\ images[u] # NoImage
    /\ shown' = [shown EXCEPT ![r] = images[u]]
    /\ main' = blocks
    /\ UNCHANGED loads

FromCache(r, blocks) ==
  LET u == rowUrl[r] IN
    /\ images[u] = NoImage
    /\ CachedImage(u) # NoImage
    /\ shown' = [shown EXCEPT ![r] = CachedImage(u)]
    /\ main' = Append(blocks, [kind |-> "set", url |-> u, image |-> CachedImage(u)])
    /\ UNCHANGED loads

loadPhoto(r, blocks) ==
  LET u == rowUrl[r] IN
    /\ images[u] = NoImage
    /\ CachedImage(u) = NoImage
    /\ \E l \in Loads :
         /\ loads[l] = Idle
         /\ loads' = [loads EXCEPT ![l] = [row |-> r, url |-> u, step |-> "net"]]
    /\ shown' = [shown EXCEPT ![r] = NoImage]
    /\ main' = blocks

photo(r, blocks) ==
  FromMemory(r, blocks) \/ FromCache(r, blocks) \/ loadPhoto(r, blocks)

cellForRow(r) ==
  /\ alive
  /\ Len(main) < MaxQueue
  /\ photo(r, main)
  /\ UNCHANGED <<images, files, rowUrl, service>>

-----------------------------------------------------------------------------
(* The completion handler of a download                                    *)

LoadAt(l, step) == loads[l] # Idle /\ loads[l].step = step

\* an error, or bytes that are no picture
LoadFails(l) ==
  /\ LoadAt(l, "net")
  /\ loads' = [loads EXCEPT ![l] = Idle]
  /\ UNCHANGED <<images, files, main, rowUrl, shown, service>>

\* mutant: the row is reloaded before the picture is handed over
LoadReloadsFirst(l) ==
  /\ LoadAt(l, "net")
  /\ main' = main \o << [kind |-> "reload", row |-> loads[l].row,
                                            url |-> loads[l].url],
                        [kind |-> "set", url |-> loads[l].url,
                                         image |-> loads[l].url] >>
  /\ loads' = [loads EXCEPT ![l].step = "save"]
  /\ UNCHANGED <<images, files, rowUrl, shown, service>>

LoadDelivers(l) ==
  /\ LoadAt(l, "net")
  /\ main' = Append(main, [kind |-> "set", url |-> loads[l].url,
                                           image |-> loads[l].url])
  /\ loads' = [loads EXCEPT ![l].step = "save"]
  /\ UNCHANGED <<images, files, rowUrl, shown, service>>

\* nothing is written when the service is gone or the file cannot be created
saveImageToCache(l) ==
  /\ LoadAt(l, "save")
  /\ \/ /\ alive
        /\ files' = [files EXCEPT ![FileName[loads[l].url]] = loads[l].url]
     \/ UNCHANGED files
  /\ loads' = [loads EXCEPT ![l].step = "reload"]
  /\ UNCHANGED <<images, main, rowUrl, shown, service>>

LoadEnds(l) ==
  /\ LoadAt(l, "reload")
  /\ main' = Append(main, [kind |-> "reload", row |-> loads[l].row,
                                              url |-> loads[l].url])
  /\ loads' = [loads EXCEPT ![l] = Idle]
  /\ UNCHANGED <<images, files, rowUrl, shown, service>>

-----------------------------------------------------------------------------
(* The main thread runs the block at the head of its queue                 *)

\* mutant: a picture that no row shows has to wait
SetImageShown ==
  /\ main # <<>> /\ Head(main).kind = "set"
  /\ \E r \in Rows : rowUrl[r] = Head(main).url
  /\ images' = IF alive
                 THEN [images EXCEPT ![Head(main).url] = Head(main).image]
                 ELSE images
  /\ main' = Tail(main)
  /\ UNCHANGED <<files, loads, rowUrl, shown, service>>

SetImage ==
  /\ main # <<>> /\ Head(main).kind = "set"
  /\ images' = IF alive
                 THEN [images EXCEPT ![Head(main).url] = Head(main).image]
                 ELSE images
  /\ main' = Tail(main)
  /\ UNCHANGED <<files, loads, rowUrl, shown, service>>

\* mutant: the row is configured with the picture of the finished download
ReloadWithLoaded ==
  /\ main # <<>> /\ Head(main).kind = "reload"
  /\ alive
  /\ shown' = [shown EXCEPT ![Head(main).row] = Head(main).url]
  /\ main' = Tail(main)
  /\ UNCHANGED <<images, files, loads, rowUrl, service>>

\* reloadRows makes the table ask for the row's picture again
reloadRow ==
  /\ main # <<>> /\ Head(main).kind = "reload"
  /\ alive
  /\ photo(Head(main).row, Tail(main))
  /\ UNCHANGED <<images, files, rowUrl, service>>

\* [weak self] is nil
ReloadNothing ==
  /\ main # <<>> /\ Head(main).kind = "reload"
  /\ ~alive
  /\ main' = Tail(main)
  /\ UNCHANGED <<images, files, loads, rowUrl, shown, service>>

-----------------------------------------------------------------------------
(* Around the service (external)                                           *)

\* the table's data changes and the row's cell is emptied for reuse
RowChanges(r, u) ==
  /\ rowUrl[r] # u
  /\ rowUrl' = [rowUrl EXCEPT ![r] = u]
  /\ shown' = [shown EXCEPT ![r] = NoImage]
  /\ UNCHANGED <<images, files, loads, main, service>>

\* thirty days pass, or iOS empties the caches directory: from now on
\* getImageFromCache returns nil
FileLapses(n) ==
  /\ files[n] # NoImage
  /\ files' = [files EXCEPT ![n] = NoImage]
  /\ UNCHANGED <<images, loads, main, rowUrl, shown, service>>

\* the owner of the service goes away; downloads and blocks stay behind
Released ==
  /\ alive
  /\ service' = "released"
  /\ UNCHANGED <<images, files, loads, main, rowUrl, shown>>

Terminated ==
  /\ service # "dead"
  /\ service' = "dead"
  /\ loads' = [l \in Loads |-> Idle]
  /\ main' = <<>>
  /\ UNCHANGED <<images, files, rowUrl, shown>>

\* the next launch finds the files
LaunchedAgain ==
  /\ service = "dead"
  /\ service' = "alive"
  /\ images' = [u \in Urls |-> NoImage]
  /\ shown' = [r \in Rows |-> NoImage]
  /\ UNCHANGED <<files, loads, main, rowUrl>>

Load(l) == LoadFails(l) \/ LoadDelivers(l) \/ saveImageToCache(l) \/ LoadEnds(l)
RunBlock == SetImage \/ reloadRow \/ ReloadNothing

Next ==
  \/ \E r \in Rows : cellForRow(r) \/ \E u \in Urls : RowChanges(r, u)
  \/ \E l \in Loads : Load(l)
  \/ RunBlock
  \/ \E n \in Names : FileLapses(n)
  \/ Released
  \/ Terminated
  \/ LaunchedAgain

Spec == Init /\ [][Next]_vars

\* The main thread runs its blocks; a download need not end.
Fairness == WF_vars(RunBlock)
FairSpec == Spec /\ Fairness

-----------------------------------------------------------------------------
(* Properties                                                              *)

TypeOK ==
  /\ images \in [Urls -> Urls \cup {NoImage}]
  /\ files \in [Names -> Urls \cup {NoImage}]
  /\ loads \in [Loads -> {Idle} \cup
                  [row : Rows, url : Urls, step : {"net", "save", "reload"}]]
  /\ main \in Seq(Blocks)
  /\ rowUrl \in [Rows -> Urls]
  /\ shown \in [Rows -> Urls \cup {NoImage}]
  /\ service \in {"alive", "released", "dead"}

Namesake(image, u) == image = NoImage \/ FileName[image] = FileName[u]

\* Answers that arrive late, after a row has changed or the process was
\* launched again, never put a picture where it does not belong: a row shows,
\* and the dictionary holds for a URL, the picture of that URL, or of one that
\* the cache cannot tell from it because the last path components are equal.
OnlyNamesakes ==
  /\ \A r \in Rows : Namesake(shown[r], rowUrl[r])
  /\ \A u \in Urls : Namesake(images[u], u)

\* By the time the main thread reloads a row, the picture that was loaded is
\* in the dictionary: reloading never downloads the same picture again, so a
\* row cannot go on reloading itself.
ReloadFindsPicture ==
  alive =>
    \A i \in DOMAIN main :
      main[i].kind = "reload" =>
        \/ images[main[i].url] # NoImage
        \/ \E j \in 1 .. i - 1 :
             main[j].kind = "set" /\ main[j].url = main[i].url

\* every file and every block that waits carries a picture it may carry
PicturesInPlace ==
  /\ \A n \in Names : files[n] # NoImage => FileName[files[n]] = n
  /\ \A i \in DOMAIN main :
       main[i].kind = "set" => FileName[main[i].image] = FileName[main[i].url]

\* a download that has not yet asked for its reload has handed over its picture
HandedOver ==
  alive =>
    \A l \in Loads :
      loads[l] # Idle /\ loads[l].step # "net" =>
        \/ images[loads[l].url] # NoImage
        \/ \E j \in DOMAIN main :
             main[j].kind = "set" /\ main[j].url = loads[l].url

\* The inductive invariant behind OnlyNamesakes and ReloadFindsPicture.
ImageInv ==
  /\ TypeOK
  /\ OnlyNamesakes
  /\ PicturesInPlace
  /\ ReloadFindsPicture
  /\ HandedOver
  /\ service = "dead" => main = <<>> /\ \A l \in Loads : loads[l] = Idle

\* A picture that was downloaded reaches the dictionary, unless the service
\* is released or the process ends before.
DownloadArrives ==
  \A u \in Urls :
    (\E l \in Loads : LoadAt(l, "save") /\ loads[l].url = u)
      ~> images[u] # NoImage \/ ~alive
=============================================================================
