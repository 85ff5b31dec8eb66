----------------------------- MODULE FSMultipart -----------------------------
(***************************************************************************)
(* The FS backend's multipart coordinator (src/unnamed/part_002) for one  *)
(* object: upload directories with fs.json and NNNNN.ETAG part files, the *)
(* appendFileMap of fsAppendFile records with their mutexes, and the      *)
(* concurrent request handlers, backgroundAppend goroutines and cleaner.  *)
(* A part's content is its ETag (an integer, so that the sorted order of  *)
(* "NNNNN.ETAG" names is the order on <<number, etag>> pairs); a file is  *)
(* the sequence of pairs it was appended from.                            *)
(***************************************************************************)
EXTENDS Naturals, Sequences, FiniteSets, Bags, BagsExt, SequencesExt

CONSTANTS
  Workers,      \* request goroutines of the object layer
  Uploads,      \* upload ids mustGetUUID may return
  MaxPart,      \* part numbers are 1..MaxPart
  NumETags,     \* part contents / ETags are 1..NumETags
  PartSize,     \* [ETags -> Nat]: size of the part with that content
  MinPartSize,  \* isMinAllowedPartSize threshold (5 MiB)
  MaxBg         \* bound on backgroundAppend goroutines in flight

PartNums == 1..MaxPart
ETags == 1..NumETags
PartFiles == PartNums \X ETags          \* "NNNNN.ETAG" entries

ASSUME PartSize \in [ETags -> Nat] /\ MinPartSize \in Nat /\ MaxBg \in Nat

\* CompletePart lists a client may send: part numbers strictly ascending
\* (the handler rejects other orders before calling the object layer).
Claims ==
  {c \in UNION {[1..k -> PartFiles] : k \in PartNums} :
     \A i \in 1..(Len(c) - 1) : c[i][1] < c[i + 1][1]}

\* fsAppendFile records: enough identifiers for every live pointer.
Recs == 1..(Cardinality(Uploads) + MaxBg + Cardinality(Workers))
NoRec == 0
NoWorker == "none"
ObjKey == "object"
NoObject == <<>>          \* the object does not exist yet
\* fs.json created (emptied) but never written: no etag, shaped like a
\* part list that no claim equals (part number 0).
Truncated == <<<<0, 0>>>>

VARIABLES
  used,           \* upload ids handed out by NewMultipartUpload
  dirPresent,     \* [Uploads -> BOOLEAN]: upload-id directory exists
  hasMeta,        \* [Uploads -> BOOLEAN]: its fs.json exists
  parts,          \* [Uploads -> SUBSET PartFiles]: part files in it
  expired,        \* [Uploads -> BOOLEAN]: dir modtime older than expiry
  appendFileMap,  \* fs.appendFileMap: [Uploads -> Recs \cup {NoRec}]
  recParts,       \* fsAppendFile.parts: Seq of <<partNumber, etag>>
  recUp,          \* the upload a record was created for
  recLock,        \* fsAppendFile mutex: holding Complete, or NoWorker
  bg,             \* bag of backgroundAppend goroutines [up, rec]
  req,            \* per request goroutine: handler step and locals
  cleaner,        \* "idle", "stopped", or the upload id it is removing
  objData,        \* object data in the namespace (sequence of parts)
  objMeta,        \* the etag source recorded in the object's fs.json
  lkpc, lkres, lkread,  \* the object namespace lock (NsLock contract)
  uploaded,       \* ghost: part files ever renamed into each upload dir
  nilDeref        \* ghost: Complete dereferenced a nil fsAppendFile

vars == <<used, dirPresent, hasMeta, parts, expired, appendFileMap,
          recParts, recUp, recLock, bg, req, cleaner, objData, objMeta,
          lkpc, lkres, lkread, uploaded, nilDeref>>
fsVars == <<used, dirPresent, hasMeta, parts, expired, uploaded>>
recVars == <<appendFileMap, recParts, recUp, recLock>>
objVars == <<objData, objMeta, lkpc, lkres, lkread>>

Lk == INSTANCE NsLock WITH Ops <- Workers, Res <- {ObjKey},
                           lpc <- lkpc, lres <- lkres, lread <- lkread

Idle == [pc |-> "idle", up |-> CHOOSE u \in Uploads : TRUE, part |-> <<1, 1>>,
         claim |-> <<>>, file |-> NoRec, data |-> <<>>]

TypeOK ==
  /\ used \subseteq Uploads /\ cleaner \in {"idle", "stopped"} \cup Uploads
  /\ \A f \in {dirPresent, hasMeta, expired} : f \in [Uploads -> BOOLEAN]
  /\ \A f \in {parts, uploaded} : f \in [Uploads -> SUBSET PartFiles]
  /\ appendFileMap \in [Uploads -> Recs \cup {NoRec}]
  /\ recParts \in [Recs -> Seq(PartFiles)] /\ recUp \in [Recs -> Uploads]
  /\ recLock \in [Recs -> Workers \cup {NoWorker}]
  /\ IsABag(bg) /\ BagToSet(bg) \subseteq [up : Uploads, rec : Recs \cup {NoRec}]
  /\ objData \in Seq(PartFiles) /\ objMeta \in Seq(PartFiles) \cup {Truncated}
  /\ nilDeref \in BOOLEAN

(***************************************************************************)
(* Helpers                                                                 *)
(***************************************************************************)
LiveRecs ==
  {appendFileMap[u] : u \in Uploads} \cup {g.rec : g \in BagToSet(bg)}
    \cup {req[w].file : w \in Workers}

\* The directory entries in readDir + sort.Strings order.
PairLT(a, b) == a[1] < b[1] \/ (a[1] = b[1] /\ a[2] < b[2])
SortedEntries(u) == SetToSortSeq(parts[u], PairLT)

\* Mutant: an entry numbered below nextPartNumber (a re-upload of a part
\* already appended) is not skipped but appended as the next part.
RECURSIVE AppendLoopNoSkip(_, _)
AppendLoopNoSkip(s, entries) ==
  IF entries = <<>> THEN s
  ELSE LET n == Head(entries)[1]
           e == Head(entries)[2]
       IN IF n > Len(s) + 1 THEN s
          ELSE AppendLoopNoSkip(Append(s, <<Len(s) + 1, e>>), Tail(entries))

\* Mutant: a gap does not stop the loop; the next entry is appended anyway.
RECURSIVE AppendLoopNoStop(_, _)
AppendLoopNoStop(s, entries) ==
  IF entries = <<>> THEN s
  ELSE LET n == Head(entries)[1]
           e == Head(entries)[2]
       IN IF n < Len(s) + 1 THEN AppendLoopNoStop(s, Tail(entries))
          ELSE AppendLoopNoStop(Append(s, <<Len(s) + 1, e>>), Tail(entries))

\* The loop of backgroundAppend over the sorted entries: skip parts already
\* appended, stop at the first gap, append part nextPartNumber otherwise.
RECURSIVE AppendLoop(_, _)
AppendLoop(s, entries) ==
  IF entries = <<>> THEN s
  ELSE LET n == Head(entries)[1]
           e == Head(entries)[2]
       IN IF n < Len(s) + 1 THEN AppendLoop(s, Tail(entries))
          ELSE IF n > Len(s) + 1 THEN s
          ELSE AppendLoop(Append(s, <<Len(s) + 1, e>>), Tail(entries))

\* The first half of backgroundAppend, under appendFileMapMu: the record
\* of u, created with a fresh tmp path when absent.  r is that record.
FetchRecord(u, r) ==
  /\ r = IF appendFileMap[u] # NoRec THEN appendFileMap[u]
         ELSE CHOOSE x \in Recs : x \notin LiveRecs
  /\ appendFileMap' = [appendFileMap EXCEPT ![u] = r]
  /\ IF appendFileMap[u] # NoRec
       THEN UNCHANGED <<recParts, recUp, recLock>>
       ELSE /\ recParts' = [recParts EXCEPT ![r] = <<>>]
            /\ recUp' = [recUp EXCEPT ![r] = u]
            /\ recLock' = [recLock EXCEPT ![r] = NoWorker]

\* The second half, under file.Lock(): readDir fails when the directory is
\* gone, otherwise the sorted entries are appended in order.
ScanAppend(r, u) ==
  /\ recLock[r] = NoWorker
  /\ recParts' = IF dirPresent[u]
                   THEN [recParts EXCEPT ![r] = AppendLoop(@, SortedEntries(u))]
                   ELSE recParts

\* The record holds exactly the claimed parts (the verification loop).
RecordMatches(s, claim) == Len(s) = Len(claim) /\ Len(claim) > 0 /\ s = claim

\* Sizes: all but the last part at least MinPartSize and equal to the first.
SizesOK(claim) ==
  \A i \in 1..(Len(claim) - 1) :
    /\ PartSize[claim[i][2]] >= MinPartSize
    /\ PartSize[claim[i][2]] = PartSize[claim[1][2]]

RemoveDir(u) ==
  /\ dirPresent' = [dirPresent EXCEPT ![u] = FALSE]
  /\ hasMeta' = [hasMeta EXCEPT ![u] = FALSE]
  /\ parts' = [parts EXCEPT ![u] = {}]
  /\ expired' = [expired EXCEPT ![u] = FALSE]

SetPc(w, p) == req' = [req EXCEPT ![w].pc = p]
Done(w) == req' = [req EXCEPT ![w] = Idle]

\* The deferred file.Unlock() of CompleteMultipartUpload.
ReleaseRecLock(w) ==
  recLock' = IF req[w].file # NoRec /\ recLock[req[w].file] = w
               THEN [recLock EXCEPT ![req[w].file] = NoWorker] ELSE recLock

\* ListObjectParts. partsMap keeps one ETag per part number, the one whose
\* file has the later ModTime; ModTimes are not modelled, so every choice is
\* a possible listing. The list is then sorted by part number.
PartNumbersOf(u) == {p[1] : p \in parts[u]}
ListedParts(u) ==
  { SetToSortSeq({<<n, f[n]>> : n \in DOMAIN f}, PairLT) :
      f \in {g \in [PartNumbersOf(u) -> ETags] :
               \A n \in DOMAIN g : <<n, g[n]>> \in parts[u]} }

\* The marker loop: i counts the entries up to and including the one whose
\* number is the marker; a marker not in the list leaves i = Len(ps).
RECURSIVE SkipToMarker(_, _, _)
SkipToMarker(ps, marker, i) ==
  IF i >= Len(ps) THEN i
  ELSE IF ps[i + 1][1] = marker THEN i + 1
  ELSE SkipToMarker(ps, marker, i + 1)
MarkerIndex(ps, marker) == IF marker = 0 THEN 0 ELSE SkipToMarker(ps, marker, 0)

\* Mutant: NextPartNumberMarker names the first part not returned.
ListPageNextUnlisted(ps, marker, maxParts) ==
  LET i == MarkerIndex(ps, marker)
      j == Min({i + maxParts, Len(ps)})
  IN  [parts |-> SubSeq(ps, i + 1, j), truncated |-> j < Len(ps),
       next |-> IF j < Len(ps) /\ j > i THEN ps[j + 1][1] ELSE 0]

\* One page: up to maxParts entries after the marker; IsTruncated when some
\* remain, NextPartNumberMarker the last one returned.
ListPage(ps, marker, maxParts) ==
  LET i == MarkerIndex(ps, marker)
      j == Min({i + maxParts, Len(ps)})
  IN  [parts |-> SubSeq(ps, i + 1, j), truncated |-> j < Len(ps),
       next |-> IF j < Len(ps) /\ j > i THEN ps[j][1] ELSE 0]

\* A client following NextPartNumberMarker while IsTruncated, from marker 0.
RECURSIVE PagesFrom(_, _, _, _)
PagesFrom(ps, marker, maxParts, fuel) ==
  LET page == ListPage(ps, marker, maxParts)
  IN  IF page.truncated /\ fuel > 0
        THEN page.parts \o PagesFrom(ps, page.next, maxParts, fuel - 1)
        ELSE page.parts

Init ==
  /\ used = {} /\ cleaner = "idle" /\ bg = EmptyBag /\ nilDeref = FALSE
  /\ dirPresent = [u \in Uploads |-> FALSE] /\ hasMeta = dirPresent
  /\ expired = dirPresent /\ parts = [u \in Uploads |-> {}] /\ uploaded = parts
  /\ appendFileMap = [u \in Uploads |-> NoRec]
  /\ recParts = [r \in Recs |-> <<>>] /\ recLock = [r \in Recs |-> NoWorker]
  /\ recUp = [r \in Recs |-> CHOOSE u \in Uploads : TRUE]
  /\ req = [w \in Workers |-> Idle]
  /\ objData = NoObject /\ objMeta = NoObject
  /\ Lk!LInit /\ lkread = [w \in Workers |-> FALSE]

(***************************************************************************)
(* Request handlers.  Each handler is split at the points where another    *)
(* goroutine can observe or change what it works on; the failure paths     *)
(* that change nothing return the goroutine to "idle".                    *)
(***************************************************************************)

\* NewMultipartUpload: a fresh uuid, its directory and fs.json.
NewMultipartUpload(w, u) ==
  /\ req[w].pc = "idle"
  /\ u \notin used
  /\ used' = used \cup {u}
  /\ dirPresent' = [dirPresent EXCEPT ![u] = TRUE]
  /\ hasMeta' = [hasMeta EXCEPT ![u] = TRUE]
  /\ expired' = [expired EXCEPT ![u] = FALSE]
  /\ UNCHANGED <<parts, uploaded, recVars, bg, req, cleaner, objVars, nilDeref>>

\* PutObjectPart up to the stat of fs.json; a missing fs.json is
\* InvalidUploadID and leaves nothing behind.
PutObjectPartStat(w, u, n, e) ==
  /\ req[w].pc = "idle"
  /\ u \in used
  /\ hasMeta[u]
  /\ req' = [req EXCEPT ![w] = [Idle EXCEPT !.pc = "put", !.up = u,
                                            !.part = <<n, e>>]]
  /\ UNCHANGED <<fsVars, recVars, bg, cleaner, objVars, nilDeref>>

\* The tmp write failed or the body was short (IncompleteBody): the tmp
\* file is removed and nothing else changes.
PutObjectPartFail(w) ==
  /\ req[w].pc = "put"
  /\ Done(w)
  /\ UNCHANGED <<fsVars, recVars, bg, cleaner, objVars, nilDeref>>

\* fsRenameFile of the tmp part into the upload directory, which creates
\* the directory (without fs.json) if it was removed meanwhile, then
\* `go fs.backgroundAppend(...)`.
PutObjectPartRename(w) ==
  LET u == req[w].up
      pf == req[w].part
  IN /\ req[w].pc = "put"
     /\ BagCardinality(bg) < MaxBg
     /\ dirPresent' = [dirPresent EXCEPT ![u] = TRUE]
     /\ parts' = [parts EXCEPT ![u] = @ \cup {pf}]
     /\ expired' = [expired EXCEPT ![u] = FALSE]
     /\ uploaded' = [uploaded EXCEPT ![u] = @ \cup {pf}]
     /\ bg' = BagAdd(bg, [up |-> u, rec |-> NoRec])
     /\ Done(w)
     /\ UNCHANGED <<used, hasMeta, recVars, cleaner, objVars, nilDeref>>

\* AbortMultipartUpload: first the record is dropped from appendFileMap.
AbortDropRecord(w, u) ==
  /\ req[w].pc = "idle"
  /\ u \in used
  /\ appendFileMap' = [appendFileMap EXCEPT ![u] = NoRec]
  /\ req' = [req EXCEPT ![w] = [Idle EXCEPT !.pc = "abort", !.up = u]]
  /\ UNCHANGED <<fsVars, recParts, recUp, recLock, bg, cleaner, objVars,
                 nilDeref>>

\* ... then fs.json is stat'ed (InvalidUploadID if missing) and the
\* directory removed.
AbortRemove(w) ==
  LET u == req[w].up
  IN /\ req[w].pc = "abort"
     /\ IF hasMeta[u] THEN RemoveDir(u)
                      ELSE UNCHANGED <<dirPresent, hasMeta, parts, expired>>
     /\ Done(w)
     /\ UNCHANGED <<used, uploaded, recVars, bg, cleaner, objVars, nilDeref>>

\* CompleteMultipartUpload up to the start of the append: stat of fs.json,
\* then every claimed part file must exist (InvalidPart) and all but the
\* last be large enough (PartTooSmall) and of equal size (PartsSizeUnequal).
CompleteValidate(w, u, claim) ==
  /\ req[w].pc = "idle"
  /\ u \in used
  /\ hasMeta[u]
  /\ \A i \in 1..Len(claim) : claim[i] \in parts[u]
  /\ SizesOK(claim)
  /\ req' = [req EXCEPT ![w] = [Idle EXCEPT !.pc = "comp_fetch", !.up = u,
                                            !.claim = claim]]
  /\ UNCHANGED <<fsVars, recVars, bg, cleaner, objVars, nilDeref>>

\* The inline fs.backgroundAppend call: the record is looked up or created
\* under appendFileMapMu ...
CompleteAppendFetch(w) ==
  /\ req[w].pc = "comp_fetch"
  /\ \E r \in Recs :
       /\ FetchRecord(req[w].up, r)
       /\ req' = [req EXCEPT ![w].pc = "comp_append", ![w].file = r]
  /\ UNCHANGED <<fsVars, bg, cleaner, objVars, nilDeref>>

\* ... and the parts on disk appended to it under file.Lock().
CompleteAppendScan(w) ==
  /\ req[w].pc = "comp_append"
  /\ ScanAppend(req[w].file, req[w].up)
  /\ SetPc(w, "comp_take")
  /\ UNCHANGED <<fsVars, appendFileMap, recUp, recLock, bg, cleaner, objVars,
                 nilDeref>>

\* The record is taken out of appendFileMap, if it is still there.
CompleteTake(w) ==
  LET u == req[w].up
  IN /\ req[w].pc = "comp_take"
     /\ req' = [req EXCEPT ![w].pc = "comp_verify", ![w].file = appendFileMap[u]]
     /\ appendFileMap' = [appendFileMap EXCEPT ![u] = NoRec]
     /\ UNCHANGED <<fsVars, recParts, recUp, recLock, bg, cleaner, objVars,
                    nilDeref>>

\* Without a record, appendFallback stays true and fsRemoveFile(file.filePath)
\* dereferences the nil pointer: the request goroutine panics.
CompleteVerifyNil(w) ==
  /\ req[w].pc = "comp_verify"
  /\ req[w].file = NoRec
  /\ nilDeref' = TRUE
  /\ Done(w)
  /\ UNCHANGED <<fsVars, recVars, bg, cleaner, objVars>>

\* With a record: file.Lock(), compare its parts with the claim; on a
\* mismatch fall back to appending the claimed part files from the upload
\* directory (an error if one is gone, releasing file via the defer).
\* Then the object's write lock is requested.
CompleteVerify(w) ==
  LET f == req[w].file
      claim == req[w].claim
      u == req[w].up
      fallbackOK == \A i \in 1..Len(claim) : claim[i] \in parts[u]
  IN /\ req[w].pc = "comp_verify"
     /\ f # NoRec
     /\ recLock[f] = NoWorker
     /\ IF RecordMatches(recParts[f], claim) \/ fallbackOK
          THEN /\ recLock' = [recLock EXCEPT ![f] = w]
               /\ req' = [req EXCEPT ![w].pc = "comp_lock", ![w].data =
                            IF RecordMatches(recParts[f], claim)
                              THEN recParts[f] ELSE claim]
               /\ Lk!Request(w, ObjKey, FALSE)
          ELSE /\ Done(w)
               /\ UNCHANGED <<recLock, lkpc, lkres, lkread>>
     /\ UNCHANGED <<fsVars, appendFileMap, recParts, recUp, bg, cleaner,
                    objData, objMeta, nilDeref>>

\* destLock.GetLock(globalObjectTimeout) succeeds ...
CompleteLockGranted(w) ==
  /\ req[w].pc = "comp_lock"
  /\ Lk!Grant(w)
  /\ SetPc(w, "comp_commit")
  /\ UNCHANGED <<fsVars, recVars, bg, cleaner, objData, objMeta, nilDeref>>

\* ... or times out: the request fails and file.Unlock() runs.
CompleteLockTimeout(w) ==
  /\ req[w].pc = "comp_lock"
  /\ Lk!GiveUp(w)
  /\ ReleaseRecLock(w)
  /\ Done(w)
  /\ UNCHANGED <<fsVars, appendFileMap, recParts, recUp, bg, cleaner,
                 objData, objMeta, nilDeref>>

\* Under the object lock: rwPool.Create truncates the object's fs.json,
\* then the upload's fs.json is read (failing if it was removed), the
\* metadata with the claim's etag written, the appended file renamed onto
\* the object (which may fail) and the upload directory removed.  The
\* deferred Unlock()s release both locks.
CompleteCommit(w) ==
  LET u == req[w].up
  IN /\ req[w].pc = "comp_commit"
     /\ \/ /\ ~hasMeta[u]
           /\ objMeta' = Truncated
           /\ UNCHANGED <<objData, dirPresent, hasMeta, parts, expired>>
        \/ /\ hasMeta[u]
           /\ objMeta' = req[w].claim
           /\ objData' = req[w].data
           /\ RemoveDir(u)
        \/ /\ hasMeta[u]
           /\ objMeta' = req[w].claim
           /\ UNCHANGED <<objData, dirPresent, hasMeta, parts, expired>>
     /\ Lk!Release(w)
     /\ ReleaseRecLock(w)
     /\ Done(w)
     /\ UNCHANGED <<used, uploaded, appendFileMap, recParts, recUp, bg,
                    cleaner, nilDeref>>

(***************************************************************************)
(* backgroundAppend goroutines spawned by PutObjectPart                    *)
(***************************************************************************)
BgAppendFetch(g) ==
  /\ g.rec = NoRec
  /\ \E r \in Recs :
       /\ FetchRecord(g.up, r)
       /\ bg' = BagAdd(BagRemove(bg, g), [g EXCEPT !.rec = r])
  /\ UNCHANGED <<fsVars, req, cleaner, objVars, nilDeref>>

BgAppendScan(g) ==
  /\ g.rec # NoRec
  /\ ScanAppend(g.rec, g.up)
  /\ bg' = BagRemove(bg, g)
  /\ UNCHANGED <<fsVars, appendFileMap, recUp, recLock, req, cleaner, objVars,
                 nilDeref>>

(***************************************************************************)
(* cleanupStaleMultipartUploads                                            *)
(***************************************************************************)
\* Time passes: an upload directory not modified for `expiry` is stale.
Expire(u) ==
  /\ dirPresent[u] /\ ~expired[u]
  /\ expired' = [expired EXCEPT ![u] = TRUE]
  /\ UNCHANGED <<used, dirPresent, hasMeta, parts, uploaded, recVars, bg, req,
                 cleaner, objVars, nilDeref>>

\* On a tick: fsStatDir finds the directory older than expiry ...
CleanerStat(u) ==
  /\ cleaner = "idle"
  /\ dirPresent[u] /\ expired[u]
  /\ cleaner' = u
  /\ UNCHANGED <<fsVars, recVars, bg, req, objVars, nilDeref>>

\* ... and fsRemoveAll removes whatever the directory holds by now.
CleanerRemove ==
  /\ cleaner \in Uploads
  /\ RemoveDir(cleaner)
  /\ cleaner' = "idle"
  /\ UNCHANGED <<used, uploaded, recVars, bg, req, objVars, nilDeref>>

\* doneCh is closed: the cleaner returns.
CleanerStop ==
  /\ cleaner = "idle"
  /\ cleaner' = "stopped"
  /\ UNCHANGED <<fsVars, recVars, bg, req, objVars, nilDeref>>

Next ==
  \/ \E w \in Workers :
       \/ \E u \in Uploads : NewMultipartUpload(w, u)
       \/ \E u \in Uploads, n \in PartNums, e \in ETags :
            PutObjectPartStat(w, u, n, e)
       \/ PutObjectPartFail(w) \/ PutObjectPartRename(w)
       \/ \E u \in Uploads : AbortDropRecord(w, u)
       \/ AbortRemove(w)
       \/ \E u \in Uploads, c \in Claims : CompleteValidate(w, u, c)
       \/ CompleteAppendFetch(w) \/ CompleteAppendScan(w) \/ CompleteTake(w)
       \/ CompleteVerifyNil(w) \/ CompleteVerify(w)
       \/ CompleteLockGranted(w) \/ CompleteLockTimeout(w)
       \/ CompleteCommit(w)
  \/ \E g \in BagToSet(bg) : BgAppendFetch(g) \/ BgAppendScan(g)
  \/ \E u \in Uploads : Expire(u) \/ CleanerStat(u)
  \/ CleanerRemove \/ CleanerStop

Spec == Init /\ [][Next]_vars

\* The state as the program can observe it: the contents of an
\* fsAppendFile no goroutine and no map entry points to any more are
\* garbage and are not told apart.
LiveRecord(r) == IF r \in LiveRecs THEN <<recParts[r], recUp[r], recLock[r]>>
                 ELSE <<>>
StateView ==
  <<used, dirPresent, hasMeta, parts, expired, appendFileMap,
    [r \in Recs |-> LiveRecord(r)], bg, req, cleaner, objData, objMeta,
    lkpc, lkres, lkread, uploaded, nilDeref>>

(***************************************************************************)
(* Properties                                                              *)
(***************************************************************************)

\* Spec 2 (Append File): a record lists, in ascending order, parts that
\* were really uploaded to its upload: backgroundAppend appends part
\* nextPartNumber only, skipping entries already appended and stopping at a
\* gap, whatever interleaving of uploads, re-uploads and scans happened.
RecordHoldsUploadedParts ==
  \A r \in LiveRecs \ {NoRec} :
    \A i \in 1..Len(recParts[r]) :
      /\ recParts[r][i][1] = i
      /\ recParts[r][i] \in uploaded[recUp[r]]

\* Complete never dereferences a nil append record: the record it looks up
\* after its own inline backgroundAppend is still in appendFileMap.
NoNilAppendRecord == ~nilDeref

\* Spec 2: append records exist for active uploads only.  A record whose
\* upload directory is gone, with no handler or goroutine still working on
\* that upload, is never removed again.
InFlight(u) ==
  \/ \E w \in Workers : req[w].pc # "idle" /\ req[w].up = u
  \/ \E g \in BagToSet(bg) : g.up = u
NoOrphanAppendRecord ==
  \A u \in Uploads :
    appendFileMap[u] # NoRec => dirPresent[u] \/ InFlight(u)

\* Spec 8.4 (no mixed metadata): the etag recorded in the object's fs.json
\* describes the object data in the namespace.
ObjectMetaMatchesData == objMeta = objData

\* Every upload directory has its fs.json, so ListMultipartUploads, which
\* fails the whole listing on a directory without one, keeps working.
UploadDirsHaveMeta == \A u \in Uploads : dirPresent[u] => hasMeta[u]
\* ListObjectParts paging: a client that starts at marker 0 and passes each
\* page's NextPartNumberMarker back while IsTruncated gets every listed
\* part once, in part-number order, for every maxParts and in every state
\* the uploads, re-uploads and cleaner leave the directory in.
PartListingPagesCoverParts ==
  \A u \in Uploads : dirPresent[u] /\ hasMeta[u] =>
    \A ps \in ListedParts(u), m \in 1..MaxPart :
      PagesFrom(ps, 0, m, MaxPart) = ps
=============================================================================
