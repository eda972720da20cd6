---------------------------- MODULE ObjectStore ----------------------------
(***************************************************************************)
(* Objects on the local file system and their downloads over HTTP.  A put  *)
(* writes a .part file of its own and renames it over the object; every    *)
(* file operation runs in a thread, which a cancelled task leaves behind.  *)
(* A download asks stat(), then opens and reads the object chunk by chunk; *)
(* a client whose connection breaks asks for the rest with Range and       *)
(* If-Range.  A chunk stands for its put: the bytes of put p are p.        *)
(***************************************************************************)
EXTENDS Naturals, Sequences

CONSTANTS
  PutTasks,    \* tasks that put the object once
  SizeOf,      \* the number of chunks each puts
  DownloadTasks,   \* clients that download it
  MaxRequests, \* bound: requests of a client
  MaxDeletes   \* bound: deletes of the object

NoObject == "no object"

ASSUME StorageAssumption == SizeOf \in [PutTasks -> Nat] /\ NoObject \notin PutTasks

VARIABLES
  object,    \* the file under the object's name: the put that wrote it
  parts,     \* the .part files that exist
  chunks,    \* chunks written to the file of each put
  putter,    \* the stage of each put task
  behind,    \* threads that outlive a cancelled task: puts to publish
  download,  \* each client: its stage, what it holds, the response it reads
  deletes

storageVars == <<object, parts, chunks, putter, behind, download, deletes>>

StorageInit ==
  /\ object = NoObject /\ parts = {}
  /\ chunks = [p \in PutTasks |-> 0]
  /\ putter = [p \in PutTasks |-> "new"]
  /\ behind = {}
  /\ download = [d \in DownloadTasks |->
       [stage |-> "idle", got |-> <<>>, etag |-> NoObject, file |-> NoObject,
        at |-> 0, left |-> 0, calm |-> TRUE, requests |-> 0]]
  /\ deletes = 0

-----------------------------------------------------------------------------
(* LocalFileStorage.put_stream.                                            *)
Unlink(p) == parts' = parts \ {p}

OpensPart(p) ==
  /\ putter[p] = "new"
  /\ parts' = parts \union {p}
  /\ putter' = [putter EXCEPT ![p] = "writing"]
  /\ UNCHANGED <<object, chunks, behind, download, deletes>>

PutWrites(p) ==
  /\ putter[p] = "writing" /\ chunks[p] < SizeOf[p]
  /\ chunks' = [chunks EXCEPT ![p] = @ + 1]
  /\ UNCHANGED <<object, parts, putter, behind, download, deletes>>

(* the iterator ends: flush, fsync, close                                  *)
MayClose(p) == putter[p] = "writing" /\ chunks[p] = SizeOf[p]

ClosesPart(p) ==
  /\ MayClose(p)
  /\ putter' = [putter EXCEPT ![p] = "publishing"]
  /\ UNCHANGED <<object, parts, chunks, behind, download, deletes>>

(* the source raises, or the task is cancelled while it writes             *)
GivesUp(p) ==
  /\ putter[p] = "writing"
  /\ Unlink(p)
  /\ putter' = [putter EXCEPT ![p] = "failed"]
  /\ UNCHANGED <<object, chunks, behind, download, deletes>>

(* a change of the object disturbs the downloads between stat and open     *)
Disturbed == [d \in DownloadTasks |->
  IF download[d].stage = "answered" THEN [download[d] EXCEPT !.calm = FALSE]
  ELSE download[d]]

(* os.replace, in the task's own thread call or in one it left behind      *)
Publishes(p) ==
  /\ putter[p] = "publishing" \/ p \in behind
  /\ object' = p /\ Unlink(p)
  /\ putter' = [putter EXCEPT ![p] = IF @ = "publishing" THEN "done" ELSE @]
  /\ behind' = behind \ {p}
  /\ download' = Disturbed
  /\ UNCHANGED <<chunks, deletes>>

(* cancelled at the await of _publish: the thread goes on                  *)
CancelledLate(p) ==
  /\ putter[p] = "publishing"
  /\ putter' = [putter EXCEPT ![p] = "cancelled"]
  /\ behind' = behind \union {p}
  /\ UNCHANGED <<object, parts, chunks, download, deletes>>

DeletesObject ==
  /\ deletes < MaxDeletes
  /\ object' = NoObject /\ deletes' = deletes + 1
  /\ download' = Disturbed
  /\ UNCHANGED <<parts, chunks, putter, behind>>

-----------------------------------------------------------------------------
(* stream_object: stat, the validator, the range, open_stream.             *)
Serves(d, kept, calm) ==
  LET x == download[d]
  IN download' = [download EXCEPT
       ![d] = [x EXCEPT !.stage = "answered", !.etag = object, !.got = kept,
                 !.at = Len(kept), !.left = SizeOf[object] - Len(kept),
                 !.calm = calm, !.requests = x.requests + 1]]

Refuses(d) == download' = [download EXCEPT ![d].requests = @ + 1]

DownloadAsked(d) ==
  /\ download[d].stage = "idle" /\ download[d].requests < MaxRequests
  /\ download[d].got = <<>>
  /\ \/ object # NoObject /\ Serves(d, <<>>, TRUE)
     \/ object = NoObject /\ Refuses(d)                          \* 404
  /\ UNCHANGED <<object, parts, chunks, putter, behind, deletes>>

(* If-Range: a range only of the very version the client has a part of,    *)
(* otherwise the whole object, which replaces what the client has          *)
SameVersion(d) == download[d].etag = object

Resume(d) ==
  LET x == download[d]
  IN /\ x.stage = "idle" /\ x.requests < MaxRequests /\ x.got # <<>>
     /\ \/ object = NoObject /\ Refuses(d)                       \* 404
        \/ /\ object # NoObject /\ SameVersion(d)
           /\ IF Len(x.got) < SizeOf[object] THEN Serves(d, x.got, x.calm)
              ELSE Refuses(d)                                    \* 416
        \/ /\ object # NoObject /\ ~SameVersion(d)
           /\ Serves(d, <<>>, TRUE)
     /\ UNCHANGED <<object, parts, chunks, putter, behind, deletes>>

(* _iter_file opens the object when the body is first asked for            *)
OpensObject(d) ==
  /\ download[d].stage = "answered"
  /\ download' = [download EXCEPT ![d].file = object,
       ![d].stage = IF object = NoObject THEN "idle" ELSE "reading"]
  /\ UNCHANGED <<object, parts, chunks, putter, behind, deletes>>

ReadsChunk(d) ==
  LET x == download[d]
  IN /\ x.stage = "reading" /\ x.left > 0 /\ x.at < chunks[x.file]
     /\ download' = [download EXCEPT
          ![d] = [x EXCEPT !.got = Append(@, x.file), !.at = @ + 1,
                           !.left = @ - 1]]
     /\ UNCHANGED <<object, parts, chunks, putter, behind, deletes>>

(* the body ends: as long as its Content-Length, or short of it            *)
EndsBody(d) ==
  LET x == download[d]
  IN /\ x.stage = "reading" /\ (x.left = 0 \/ x.at >= chunks[x.file])
     /\ download' = [download EXCEPT
          ![d].stage = IF x.left = 0 THEN "complete" ELSE "idle"]
     /\ UNCHANGED <<object, parts, chunks, putter, behind, deletes>>

ConnectionBreaks(d) ==
  /\ download[d].stage \in {"answered", "reading"}
  /\ download' = [download EXCEPT ![d].stage = "idle"]
  /\ UNCHANGED <<object, parts, chunks, putter, behind, deletes>>

StorageNext ==
  \/ \E p \in PutTasks : \/ OpensPart(p) \/ PutWrites(p) \/ ClosesPart(p)
                         \/ GivesUp(p) \/ Publishes(p) \/ CancelledLate(p)
  \/ \E d \in DownloadTasks : \/ DownloadAsked(d) \/ Resume(d) \/ OpensObject(d)
                          \/ ReadsChunk(d) \/ EndsBody(d) \/ ConnectionBreaks(d)
  \/ DeletesObject

StorageSpec == StorageInit /\ [][StorageNext]_storageVars

-----------------------------------------------------------------------------
(* Type correctness of the store and the downloads.                        *)
StorageTypeOK ==
  /\ object \in PutTasks \union {NoObject} /\ parts \subseteq PutTasks
  /\ \A p \in PutTasks :
       /\ chunks[p] \in 0 .. SizeOf[p]
       /\ putter[p] \in {"new", "writing", "publishing", "done", "failed",
                         "cancelled"}
  /\ \A d \in DownloadTasks :
       download[d].stage \in {"idle", "answered", "reading", "complete"}

(* A reader never sees a part of a put: whatever is under the object's     *)
(* name is whole, and a put that gave up leaves no file behind             *)
(* (_storage.py:152-183).                                                  *)
ObjectsAreWhole ==
  /\ object # NoObject => chunks[object] = SizeOf[object]
  /\ \A p \in PutTasks : putter[p] = "failed" => p \notin parts /\ object # p

(* A download pieced together over broken connections is one object from   *)
(* its first chunk to its last, however often the object was replaced, as  *)
(* long as none of its requests was disturbed between stat() and open      *)
(* (_download.py:134-137, 182-193).                                        *)
DownloadsAreWhole ==
  \A d \in DownloadTasks :
    LET x == download[d]
    IN x.stage = "complete" /\ x.calm =>
         /\ \A i \in DOMAIN x.got : x.got[i] = x.etag
         /\ Len(x.got) = SizeOf[x.etag]

StorageIsSound == ObjectsAreWhole /\ DownloadsAreWhole
=============================================================================
